---------------------------- MODULE Spec2Model ----------------------------
(***************************************************************************)
(* A model of gobuild's toolchain manager (ensureSDK, installedSDK,         *)
(* ensureMostRecentSDK and the state they share, src/unnamed/part_000), of *)
(* the targets (same file), of resolveModuleLatest (src/unnamed/part_001), *)
(* and of "gobuild serve": its startup, its shutdown on a signal, the      *)
(* appends to the transparency log and the handlers of its HTTP surface    *)
(* (serve, failf, serveGzipFile and verifySumState, src/serve.go;          *)
(* serveHome, src/home.go).                                                *)
(*                                                                         *)
(* Strings are sequences of one-character strings, so that the prefix,    *)
(* split and integer-parsing steps of the version validation are computed *)
(* the way the Go code computes them.                                      *)
(***************************************************************************)
EXTENDS Integers, Sequences, FiniteSets, TLC

(***************************************************************************)
(* Bounds of the model.                                                    *)
(***************************************************************************)
\* Number of goroutines calling ensureSDK concurrently.
NumProcs == 2
\* Most codings in the Accept-Encoding value of a request.
MaxCodings == 2
\* Most observations targets.increase counts.
MaxTotalUse == 65
\* Most calls of targets.increase with a string of any kind.
MaxAnyUse == 4
\* Longest generated suffix after "go" of an identifier given to validation.
MaxSuffixLen == 4
\* Most records the transparency log receives before the startup under study.
MaxRecords == 3
\* Most disk faults (truncation, corruption, removal) before the startup.
MaxFaults == 1

(***************************************************************************)
(* Strings.                                                                *)
(***************************************************************************)
Digits == <<"0", "1", "2", "3", "4", "5", "6", "7", "8", "9">>

IsDigit(c) == \E i \in 1..Len(Digits) : Digits[i] = c

DigitVal(c) == (CHOOSE i \in 1..Len(Digits) : Digits[i] = c) - 1

\* Byte order of the characters the model uses (their ASCII codes).
Ord(c) ==
    CASE c = "+" -> 43
      [] c = "-" -> 45
      [] c = "." -> 46
      [] IsDigit(c) -> 48 + DigitVal(c)
      [] c = "c" -> 99
      [] c = "g" -> 103
      [] c = "i" -> 105
      [] c = "m" -> 109
      [] c = "o" -> 111
      [] c = "p" -> 112
      [] c = "r" -> 114
      [] c = "t" -> 116
      [] OTHER -> 127

\* strings.HasPrefix
HasPrefix(s, prefix) ==
    /\ Len(s) >= Len(prefix)
    /\ SubSeq(s, 1, Len(prefix)) = prefix

\* Go's string comparison a < b: bytewise lexicographic.
RECURSIVE StrLess(_, _)
StrLess(a, b) ==
    IF b = <<>> THEN FALSE
    ELSE IF a = <<>> THEN TRUE
    ELSE IF Head(a) # Head(b) THEN Ord(Head(a)) < Ord(Head(b))
    ELSE StrLess(Tail(a), Tail(b))

\* Index of the first occurrence of character sep in s, 0 when there is none.
IndexOf(s, sep) ==
    IF \E i \in 1..Len(s) : s[i] = sep
    THEN CHOOSE i \in 1..Len(s) : s[i] = sep /\ \A j \in 1..(i - 1) : s[j] # sep
    ELSE 0

\* strings.Split(s, sep) for a one-character separator: the fields between
\* the separators, always at least one field.
RECURSIVE Split(_, _)
Split(s, sep) ==
    LET i == IndexOf(s, sep)
    IN  IF i = 0 THEN <<s>>
        ELSE <<SubSeq(s, 1, i - 1)>> \o Split(SubSeq(s, i + 1, Len(s)), sep)

\* Value of a non-empty sequence of decimal digits.
RECURSIVE DecimalValue(_)
DecimalValue(ds) ==
    IF ds = <<>> THEN 0
    ELSE 10 * DecimalValue(SubSeq(ds, 1, Len(ds) - 1)) + DigitVal(ds[Len(ds)])

\* strconv.ParseInt(s, 10, 64): an optional sign, then one or more decimal
\* digits and nothing else.  The identifiers of the model are short, so the
\* value never nears 2^63 and the range error cannot happen.
ParseInt(s) ==
    LET signed == s # <<>> /\ Head(s) \in {"+", "-"}
        body   == IF signed THEN Tail(s) ELSE s
        ok     == body # <<>> /\ \A i \in 1..Len(body) : IsDigit(body[i])
    IN  [ok  |-> ok,
         num |-> IF ~ok THEN 0
                 ELSE IF signed /\ Head(s) = "-" THEN 0 - DecimalValue(body)
                 ELSE DecimalValue(body)]

\* All sequences over alphabet of length at most n.
RECURSIVE SeqsUpTo(_, _)
SeqsUpTo(alphabet, n) ==
    IF n = 0 THEN {<<>>}
    ELSE LET shorter == SeqsUpTo(alphabet, n - 1)
         IN  shorter \cup {Append(s, c) : s \in shorter, c \in alphabet}

(***************************************************************************)
(* Errors.  An error is the sentinel it wraps (%w) and its message.        *)
(***************************************************************************)
errBadGoversion == "bad goversion"
errRemote == "remote"
errServer == "server error"

Errorf(sentinel, message) == [wraps |-> sentinel, msg |-> message]

\* The nil error, and the mark of a key missing from a map.
Nil == [wraps |-> "nil", msg |-> ""]
Absent == [wraps |-> "absent", msg |-> ""]

\* errors.Is(err, sentinel)
ErrorsIs(err, sentinel) == err.wraps = sentinel

StatusInternalServerError == 500
StatusBadRequest == 400
StatusOK == 200
StatusTemporaryRedirect == 307
StatusNotFound == 404
StatusMethodNotAllowed == 405

\* failf: the status an error is rendered with.
failf(err) ==
    IF ErrorsIs(err, errServer) THEN StatusInternalServerError
    ELSE StatusBadRequest

(***************************************************************************)
(* Validation of the toolchain identifier at the head of ensureSDK.        *)
(***************************************************************************)
GoPrefix == <<"g", "o">>
Go1Prefix == <<"g", "o", "1">>
Go1DotPrefix == <<"g", "o", "1", ".">>

\* MinMinor: the first minor version with reproducible builds.
MinMinor == 13

\* The error ensureSDK returns before it looks at any state, Nil when the
\* identifier passes.
validateGoversion(goversion) ==
    IF ~HasPrefix(goversion, GoPrefix)
    THEN Errorf(errBadGoversion, "must start with go")
    ELSE IF HasPrefix(goversion, Go1Prefix)
    THEN IF Len(goversion) < 4 \/ ~HasPrefix(goversion, Go1DotPrefix)
         THEN Errorf(errBadGoversion, "old version, must be >=go1.13")
         ELSE LET parsed == ParseInt(Split(SubSeq(goversion, 5, Len(goversion)), ".")[1])
              IN  IF ~parsed.ok \/ parsed.num < MinMinor
                  THEN Errorf(errBadGoversion, "bad version, must be >=go1.13")
                  ELSE Nil
    ELSE Nil


(***************************************************************************)
(* State.                                                                  *)
(***************************************************************************)
VARIABLES
    \* The toolchain manager (var sdk) and its surroundings.
    sdkDir,         \* names of the directories in config.SDKDir
    installed,      \* sdk.installed
    supportedList,  \* sdk.supportedList
    installedList,  \* sdk.installedList
    status,         \* sdk.fetch.status; Absent marks a missing key
    sdkMu,          \* holder of sdk.Mutex, 0 when free
    fetchMu,        \* holder of sdk.fetch.Mutex, 0 when free
    tmpDirs,        \* goroutines whose tmp-install directory exists
    catalog,        \* the release catalog goreleases.ListAll reads
    \* One ensureSDK call per goroutine.
    pc,             \* where the goroutine is in ensureSDK
    goversion,      \* the argument of its call
    ret,            \* the error its call returned
    contacted,      \* the call has requested the catalog
    fetched,        \* the call has started an archive fetch
    locked,         \* the call has taken a mutex
    seen,           \* the errors earlier calls for the same version had
                    \* returned when this call began
    \* History.
    hist,           \* the returns so far: version and error returned
    fetchCount,     \* per version: archive fetches started
    \* The files of the transparency log (config.DataDir).
    records,        \* sum/records: the record lines
    hashes,         \* sum/hashes: its whole 32-byte hashes
    hashesExtra,    \* sum/hashes: bytes after the last whole hash
    recordNumber,   \* result/<c>/<sum>/recordnumber, by sum
    binaryGz,       \* result/<c>/<sum>/binary.gz, by sum
    faults,         \* faults the files have suffered
    truncated,      \* sum/hashes has been cut by the size of one hash
    \* The process started by "gobuild serve".
    pcServe,        \* where serve is
    verifyResult,   \* what verifySumState returned
    started,        \* the goroutines serve has started
    accepted,       \* the listeners that have accepted a request
    \* The appends to the transparency log and the shutdown.
    addSumMutex,    \* holder of addSumMutex, 0 when free
    pcAddSum,       \* per goroutine: where it is in an append
    pcSignal,       \* where the goroutine started at serve.go:241 is
    sigc,           \* signals waiting in the channel sigc
    sigDuringAppend,\* the signal was received while an append held the mutex
    interrupted,    \* writes made by the append the end of the process cut
    \* installedSDK and ensureMostRecentSDK.
    clock,          \* the time, in units of half an hour
    lastSupported,  \* sdk.lastSupported
    pcInst,         \* per goroutine: where it is in installedSDK or in
                    \* ensureMostRecentSDK
    caller,         \* per goroutine: the function that called installedSDK
    now,            \* per goroutine: the local now of installedSDK
    resp,           \* per goroutine: what goreleases.ListSupported returned
    retSupported,      \* per goroutine: the first list installedSDK returned
    retRemaining,      \* per goroutine: the second list installedSDK returned
    requests,       \* the calls of goreleases.ListSupported so far
    lastGood,       \* the list of the last refresh that succeeded
    \* The handling of an HTTP request.
    pcHTTP,         \* where the handling of the request is
    request,        \* the request: method, path, Accept-Encoding
    muxPattern,     \* the pattern of the handler the mux picked
    response,       \* the response written
    failure,        \* the error given to failf, Nil when it was not called
    signerKey,      \* config.SignerKey is set
    \* The context of the request a goroutine serves.
    cancelled,      \* per goroutine: the context is cancelled
    cancelledAt,    \* per goroutine: where it was blocked when that happened
    pcResolve,      \* per goroutine: where it is in resolveModuleLatest
    retResolve,     \* per goroutine: the error resolveModuleLatest returned
    \* The targets (var targets).
    targetList,     \* targets.list
    use,            \* targets.use
    totalUse,       \* targets.totalUse
    lastSort        \* the value of targets.totalUse at the last sort

sdkVars == <<sdkDir, installed, supportedList, installedList, status, sdkMu,
             fetchMu, tmpDirs, catalog>>
callVars == <<pc, goversion, ret, contacted, fetched, locked, seen>>
histVars == <<hist, fetchCount>>
diskVars == <<records, hashes, hashesExtra, recordNumber, binaryGz>>
faultVars == <<faults, truncated>>
serveVars == <<pcServe, verifyResult, started, accepted>>
logVars == <<addSumMutex, pcAddSum, pcSignal, sigc, sigDuringAppend,
             interrupted>>
supportVars == <<clock, lastSupported, pcInst, caller, now, resp, retSupported,
                 retRemaining, requests, lastGood>>
httpVars == <<pcHTTP, request, muxPattern, response, failure, signerKey>>
ctxVars == <<cancelled, cancelledAt, pcResolve, retResolve>>
targetVars == <<targetList, use, totalUse, lastSort>>

Procs == 1..NumProcs

Go1_12 == <<"g", "o", "1", ".", "1", "2">>
Go1_13 == <<"g", "o", "1", ".", "1", "3">>
Go2_0 == <<"g", "o", "2", ".", "0">>
TmpInstall == <<"t", "m", "p">>

\* The identifiers the concurrent callers ask for: one that fails the
\* validation, one that is installed when the process starts and one that
\* is not.
SDKVersions == {Go1_12, Go1_13, Go2_0}

\* The directory names config.SDKDir holds when the process starts: two
\* toolchains (one of them older than the validation allows) and a leftover
\* that is not a toolchain.
DiskNames == {Go1_12, Go1_13, TmpInstall}

\* The releases of the catalog when the process starts.  Go2_0 is a future
\* release: it may appear later.
PastReleases == {Go1_12, Go1_13}

\* fetchCount saturates here; more than one fetch is all that is asked of it.
FetchCountCap == 2

(***************************************************************************)
(* The errors of ensureSDK.                                                *)
(***************************************************************************)
ErrListing == Errorf(errRemote, "listing known releases")
ErrFindFile == Errorf(errServer, "finding release file")
ErrTempDir == Errorf(errServer, "making tempdir for sdk")
ErrInstalling == Errorf(errServer, "installing sdk")
ErrRename == Errorf(errServer, "putting sdk in place")
ErrNoSuchVersion == Errorf(errBadGoversion, "no such version")

(***************************************************************************)
(* sdkIsSupported, sdkUpdateInstalledList                                  *)
(***************************************************************************)
sdkIsSupported(supported, v) == \E i \in 1..Len(supported) : supported[i] = v

\* The elements of a set of strings, largest first (sort.Slice with
\* l[j] < l[i]).
RECURSIVE SortDescending(_)
SortDescending(S) ==
    IF S = {} THEN <<>>
    ELSE LET top == CHOOSE x \in S : \A y \in S : ~StrLess(x, y)
         IN  <<top>> \o SortDescending(S \ {top})

\* The value sdkUpdateInstalledList gives sdk.installedList.
sdkUpdateInstalledList(inst, supported) ==
    SortDescending({v \in inst : ~sdkIsSupported(supported, v)})

\* initSDK: the directories named go... are the installed toolchains.
initSDK(dirs) == {d \in dirs : HasPrefix(d, GoPrefix)}

(***************************************************************************)
(* Initial state: after initSDK, no call in progress.                      *)
(***************************************************************************)
InitSDK ==
    /\ sdkDir = DiskNames
    /\ installed = initSDK(sdkDir)
    /\ supportedList = <<>>
    /\ installedList = sdkUpdateInstalledList(installed, supportedList)
    /\ status = [v \in SDKVersions |-> Absent]
    /\ sdkMu = 0
    /\ fetchMu = 0
    /\ tmpDirs = {}
    /\ catalog = [v \in SDKVersions |->
                      IF v \in PastReleases THEN "archive" ELSE "absent"]

InitCalls ==
    /\ pc = [p \in Procs |-> "idle"]
    /\ goversion = [p \in Procs |-> <<>>]
    /\ ret = [p \in Procs |-> Nil]
    /\ contacted = [p \in Procs |-> FALSE]
    /\ fetched = [p \in Procs |-> FALSE]
    /\ locked = [p \in Procs |-> FALSE]
    /\ seen = [p \in Procs |-> {}]

InitHist ==
    /\ hist = {}
    /\ fetchCount = [v \in SDKVersions |-> 0]

(***************************************************************************)
(* ensureSDK, one action per step between two points where another         *)
(* goroutine can run.                                                      *)
(***************************************************************************)
\* The call of p returns err; the return is remembered for its version.
Finish(p, v, err) ==
    /\ pc' = [pc EXCEPT ![p] = "done"]
    /\ ret' = [ret EXCEPT ![p] = err]
    /\ hist' = hist \cup {[v |-> v, err |-> err]}

\* A goroutine that is in no call calls ensureSDK(v): what earlier calls for
\* v have returned is recorded for it, and precheck is the error that ends
\* the call at once, Nil when it goes on to sdk.Lock().
CallWith(p, v, precheck) ==
    /\ pc[p] \in {"idle", "done"}
    /\ goversion' = [goversion EXCEPT ![p] = v]
    /\ seen' = [seen EXCEPT ![p] = {h.err : h \in {g \in hist : g.v = v}}]
    /\ contacted' = [contacted EXCEPT ![p] = FALSE]
    /\ fetched' = [fetched EXCEPT ![p] = FALSE]
    /\ locked' = [locked EXCEPT ![p] = FALSE]
    /\ IF precheck # Nil
       THEN Finish(p, v, precheck)
       ELSE /\ pc' = [pc EXCEPT ![p] = "lockSdk"]
            /\ ret' = [ret EXCEPT ![p] = Nil]
            /\ UNCHANGED hist
    /\ UNCHANGED <<sdkVars, fetchCount>>

\* A variant in which a toolchain directory that is present lets the call
\* go on although the identifier is invalid.
ensureSDK_ValidateUnlessInstalled(p, v) ==
    CallWith(p, v, IF v \in installed THEN Nil ELSE validateGoversion(v))

\* Lines 224-237: the call begins and the identifier is validated before
\* anything else.
ensureSDK_Validate(p, v) == CallWith(p, v, validateGoversion(v))

\* Line 240: sdk.Lock()
ensureSDK_LockSdk(p) ==
    /\ pc[p] = "lockSdk"
    /\ sdkMu = 0
    /\ sdkMu' = p
    /\ pc' = [pc EXCEPT ![p] = "checkInstalled"]
    /\ locked' = [locked EXCEPT ![p] = TRUE]
    /\ UNCHANGED <<goversion, ret, contacted, fetched, seen>>
    /\ UNCHANGED <<sdkDir, installed, supportedList, installedList, status,
                   fetchMu, tmpDirs, catalog>>
    /\ UNCHANGED histVars

\* A variant of lines 241-245 without the sdk.Unlock() of line 245: the
\* goroutine goes on to sdk.fetch.Lock() with the sdk mutex held.
ensureSDK_CheckInstalledKeepsSdk(p) ==
    /\ pc[p] = "checkInstalled"
    /\ IF goversion[p] \in installed
       THEN /\ Finish(p, goversion[p], Nil)
            /\ sdkMu' = 0
       ELSE /\ pc' = [pc EXCEPT ![p] = "lockFetch"]
            /\ UNCHANGED <<ret, hist, sdkMu>>
    /\ UNCHANGED <<goversion, contacted, fetched, locked, seen, fetchCount>>
    /\ UNCHANGED <<sdkDir, installed, supportedList, installedList, status,
                   fetchMu, tmpDirs, catalog>>

\* Lines 241-245: an installed toolchain ends the call; sdk.Unlock() either way.
ensureSDK_CheckInstalled(p) ==
    /\ pc[p] = "checkInstalled"
    /\ sdkMu' = 0
    /\ IF goversion[p] \in installed
       THEN Finish(p, goversion[p], Nil)
       ELSE /\ pc' = [pc EXCEPT ![p] = "lockFetch"]
            /\ UNCHANGED <<ret, hist>>
    /\ UNCHANGED <<goversion, contacted, fetched, locked, seen, fetchCount>>
    /\ UNCHANGED <<sdkDir, installed, supportedList, installedList, status,
                   fetchMu, tmpDirs, catalog>>

\* Lines 251-258 with entry the value read from sdk.fetch.status:
\* sdk.fetch.Lock(); an entry ends the call (the deferred sdk.fetch.Unlock()
\* runs), otherwise goreleases.ListAll is called.
CheckStatusWith(p, entry) ==
    /\ pc[p] = "lockFetch"
    /\ fetchMu = 0
    /\ IF entry # Absent
       THEN /\ Finish(p, goversion[p], entry)
            /\ UNCHANGED <<fetchMu, contacted>>
       ELSE /\ fetchMu' = p
            /\ pc' = [pc EXCEPT ![p] = "listing"]
            /\ contacted' = [contacted EXCEPT ![p] = TRUE]
            /\ UNCHANGED <<ret, hist>>
    /\ UNCHANGED <<goversion, fetched, locked, seen, fetchCount>>
    /\ UNCHANGED <<sdkDir, installed, supportedList, installedList, status,
                   sdkMu, tmpDirs, catalog>>

\* A variant that never finds an entry.
ensureSDK_CheckStatusIgnoresEntry(p) == CheckStatusWith(p, Absent)

\* Lines 251-258.
ensureSDK_CheckStatus(p) == CheckStatusWith(p, status[goversion[p]])

\* What the call does between the return of goreleases.ListAll and either
\* its own return or the call of goreleases.Fetch (lines 259-281), given
\* whether the no-such-version and the listing error are written to status.
ListAllReturns(p, cacheNoSuch, cacheListing) ==
    LET v == goversion[p]
        Fail(err, cached) ==
            /\ Finish(p, v, err)
            /\ status' = IF cached THEN [status EXCEPT ![v] = err] ELSE status
            /\ fetchMu' = 0
            /\ UNCHANGED <<tmpDirs, fetched, fetchCount>>
    IN  /\ pc[p] = "listing"
        /\ \/ \* ListAll failed.
              Fail(ErrListing, cacheListing)
           \/ \* The version is not among the releases.
              /\ catalog[v] = "absent"
              /\ Fail(ErrNoSuchVersion, cacheNoSuch)
           \/ \* The release has no archive for this platform: FindFile fails.
              /\ catalog[v] = "nofile"
              /\ Fail(ErrFindFile, TRUE)
           \/ \* ioutil.TempDir failed.
              /\ catalog[v] = "archive"
              /\ Fail(ErrTempDir, TRUE)
           \/ \* The temporary directory exists and the fetch begins.
              /\ catalog[v] = "archive"
              /\ tmpDirs' = tmpDirs \cup {p}
              /\ pc' = [pc EXCEPT ![p] = "fetching"]
              /\ fetched' = [fetched EXCEPT ![p] = TRUE]
              /\ fetchCount' = [fetchCount EXCEPT ![v] =
                                   IF @ < FetchCountCap THEN @ + 1 ELSE @]
              /\ UNCHANGED <<ret, hist, status, fetchMu>>
        /\ UNCHANGED <<goversion, contacted, locked, seen>>
        /\ UNCHANGED <<sdkDir, installed, supportedList, installedList, sdkMu,
                       catalog>>

\* A variant that remembers "no such version" like the other failures.
ensureSDK_ListAllDoneCachesNoSuch(p) == ListAllReturns(p, TRUE, TRUE)

\* A variant that does not remember a failed listing.
ensureSDK_ListAllDoneForgetsListing(p) == ListAllReturns(p, FALSE, FALSE)

\* Lines 258-281.
ensureSDK_ListAllDone(p) == ListAllReturns(p, FALSE, TRUE)

\* What the call does from the return of goreleases.Fetch to the rename
\* (lines 281-290, 296-297), given whether a failed fetch is written to
\* status.  Every return runs the deferred os.RemoveAll(tmpdir) and
\* sdk.fetch.Unlock().
FetchReturns(p, cacheFailure) ==
    LET v == goversion[p]
        Fail(err, cached) ==
            /\ Finish(p, v, err)
            /\ status' = IF cached THEN [status EXCEPT ![v] = err] ELSE status
            /\ tmpDirs' = tmpDirs \ {p}
            /\ fetchMu' = 0
            /\ UNCHANGED sdkDir
    IN  /\ pc[p] = "fetching"
        /\ \/ \* goreleases.Fetch failed.
              Fail(ErrInstalling, cacheFailure)
           \/ \* os.Rename failed.
              Fail(ErrRename, TRUE)
           \/ \* The tree is in place as sdk/<goversion>.
              /\ sdkDir' = sdkDir \cup {v}
              /\ pc' = [pc EXCEPT ![p] = "lockSdkInstall"]
              /\ UNCHANGED <<ret, hist, status, tmpDirs, fetchMu>>
        /\ UNCHANGED <<goversion, contacted, fetched, locked, seen, fetchCount>>
        /\ UNCHANGED <<installed, supportedList, installedList, sdkMu, catalog>>

\* A variant of lines 281-297 in which a rename that failed is followed by
\* the install all the same.
ensureSDK_FetchDoneInstallsUnrenamed(p) ==
    LET v == goversion[p]
    IN  /\ pc[p] = "fetching"
        /\ \/ \* goreleases.Fetch failed.
              /\ Finish(p, v, ErrInstalling)
              /\ status' = [status EXCEPT ![v] = ErrInstalling]
              /\ tmpDirs' = tmpDirs \ {p}
              /\ fetchMu' = 0
              /\ UNCHANGED sdkDir
           \/ \* os.Rename failed.
              /\ pc' = [pc EXCEPT ![p] = "lockSdkInstall"]
              /\ UNCHANGED <<ret, hist, status, tmpDirs, fetchMu, sdkDir>>
           \/ \* The tree is in place as sdk/<goversion>.
              /\ sdkDir' = sdkDir \cup {v}
              /\ pc' = [pc EXCEPT ![p] = "lockSdkInstall"]
              /\ UNCHANGED <<ret, hist, status, tmpDirs, fetchMu>>
        /\ UNCHANGED <<goversion, contacted, fetched, locked, seen, fetchCount>>
        /\ UNCHANGED <<installed, supportedList, installedList, sdkMu, catalog>>

\* A variant that returns a failed fetch without remembering it.
ensureSDK_FetchDoneForgetsFailure(p) == FetchReturns(p, FALSE)

\* Lines 281-290.
ensureSDK_FetchDone(p) == FetchReturns(p, TRUE)

\* Line 291: sdk.Lock()
ensureSDK_LockSdkInstall(p) ==
    /\ pc[p] = "lockSdkInstall"
    /\ sdkMu = 0
    /\ sdkMu' = p
    /\ pc' = [pc EXCEPT ![p] = "install"]
    /\ UNCHANGED <<goversion, ret, contacted, fetched, locked, seen>>
    /\ UNCHANGED <<sdkDir, installed, supportedList, installedList, status,
                   fetchMu, tmpDirs, catalog>>
    /\ UNCHANGED histVars

\* Lines 293-297 with newInstalled the value given to sdk.installed; the
\* deferred sdk.Unlock(), os.RemoveAll(tmpdir) and sdk.fetch.Unlock() run at
\* the return.
InstallWith(p, newInstalled) ==
    /\ pc[p] = "install"
    /\ installed' = newInstalled
    /\ installedList' = sdkUpdateInstalledList(newInstalled, supportedList)
    /\ status' = [status EXCEPT ![goversion[p]] = Nil]
    /\ Finish(p, goversion[p], Nil)
    /\ sdkMu' = 0
    /\ tmpDirs' = tmpDirs \ {p}
    /\ fetchMu' = 0
    /\ UNCHANGED <<goversion, contacted, fetched, locked, seen, fetchCount>>
    /\ UNCHANGED <<sdkDir, supportedList, catalog>>

\* A variant that starts the installed set afresh at each install.
ensureSDK_InstallReplacesSet(p) == InstallWith(p, {goversion[p]})

\* Lines 293-297.
ensureSDK_Install(p) == InstallWith(p, installed \cup {goversion[p]})

\* The catalog gains a release, with or without an archive for this platform.
Publish(v, kind) ==
    /\ catalog[v] = "absent"
    /\ catalog' = [catalog EXCEPT ![v] = kind]
    /\ UNCHANGED <<sdkDir, installed, supportedList, installedList, status,
                   sdkMu, fetchMu, tmpDirs>>
    /\ UNCHANGED <<callVars, histVars>>

(***************************************************************************)
(* The transparency log on disk.                                           *)
(*                                                                         *)
(* A hash is the sequence of numbers that writes the tree it is the hash   *)
(* of, so two hashes are equal exactly when they hash the same data.       *)
(***************************************************************************)
\* tlog.HashSize
HashSize == 32

\* tlog.RecordHash: the hash of a leaf.
RecordHash(data) == <<0>> \o data

\* tlog.NodeHash: the hash of an interior node.
NodeHash(left, right) == <<1>> \o left \o right

\* What a fault leaves where a hash was.
GarbageHash == <<2>>

\* n >> k
RECURSIVE ShiftRight(_, _)
ShiftRight(n, k) == IF k = 0 THEN n ELSE ShiftRight(n \div 2, k - 1)

\* The number of trailing one bits of n (bits.TrailingZeros64(n + 1)).
RECURSIVE TrailingOnes(_)
TrailingOnes(n) == IF n % 2 = 0 THEN 0 ELSE 1 + TrailingOnes(n \div 2)

\* n + n/2 + n/4 + ...
RECURSIVE SumOfShifts(_)
SumOfShifts(n) == IF n <= 0 THEN 0 ELSE n + SumOfShifts(n \div 2)

\* n after "n = 2*n + 1" has been done level times.
RECURSIVE DownToLevel0(_, _)
DownToLevel0(level, n) ==
    IF level = 0 THEN n ELSE DownToLevel0(level - 1, 2 * n + 1)

\* tlog.StoredHashIndex
StoredHashIndex(level, n) == SumOfShifts(DownToLevel0(level, n)) + level

\* tlog.StoredHashCount
StoredHashCount(n) ==
    IF n = 0 THEN 0
    ELSE StoredHashIndex(0, n - 1) + 1 + TrailingOnes(n - 1)

\* hashReader.ReadHashes for one index: the hash at that index of the hashes
\* file, garbage when the file is too short (the callers below have checked
\* the size of the file first).
ReadHash(file, index) ==
    IF index + 1 <= Len(file) THEN file[index + 1] ELSE GarbageHash

\* tlog.StoredHashes(n, data, hashReader{}): the hashes to store for record
\* n, the leaf first, then one node for each subtree the record completes.
RECURSIVE StoredHashesFrom(_, _, _, _, _)
StoredHashesFrom(n, file, i, h, acc) ==
    IF i >= TrailingOnes(n) THEN acc
    ELSE LET old == ReadHash(file, StoredHashIndex(i, ShiftRight(n, i) - 1))
             node == NodeHash(old, h)
         IN  StoredHashesFrom(n, file, i + 1, node, Append(acc, node))

StoredHashes(n, data, file) ==
    StoredHashesFrom(n, file, 0, RecordHash(data), <<RecordHash(data)>>)

\* strconv.FormatInt(n, 10) for n >= 0.
RECURSIVE FormatInt(_)
FormatInt(n) ==
    IF n < 10 THEN <<Digits[n + 1]>>
    ELSE FormatInt(n \div 10) \o <<Digits[(n % 10) + 1]>>

\* The sum of a binary: "0" and the base64 of the first 20 bytes of its
\* SHA-256.  The digest is written as the contents it is the digest of.
BinarySum(contents) == [version |-> "0", digest |-> contents]

\* The record line of the k-th build (k = 1, 2, ...): its request and the sum
\* of its binary, whose contents are written k.
RecordLine(k) == [request |-> k, Sum |-> BinarySum(k), wellformed |-> TRUE]

\* A record line that parseRecord cannot parse.
GarbledLine == [request |-> 0, Sum |-> BinarySum(0), wellformed |-> FALSE]

\* The bytes of a record line, as hashed.
LineBytes(line) ==
    <<line.request, line.Sum.digest, IF line.wellformed THEN 1 ELSE 0>>

\* The sums of the builds, which name the directories under result/.
Sums == {BinarySum(k) : k \in 1..MaxRecords}

\* A file: whether it exists and what it holds.
NoFile == [exists |-> FALSE, data |-> <<>>]
File(contents) == [exists |-> TRUE, data |-> contents]

\* binary.gz: whether it exists, whether it is a gzip stream, and the
\* contents it decompresses to.
NoBinary == [exists |-> FALSE, gzip |-> FALSE, contents |-> 0]
BinaryGz(contents) == [exists |-> TRUE, gzip |-> TRUE, contents |-> contents]
NotGzip == [exists |-> TRUE, gzip |-> FALSE, contents |-> 0]

\* The hashes file after n complete appends.
RECURSIVE HashesAfter(_)
HashesAfter(n) ==
    IF n = 0 THEN <<>>
    ELSE LET before == HashesAfter(n - 1)
         IN  before \o StoredHashes(n - 1, LineBytes(RecordLine(n)), before)

\* The files after n complete appends: what a run that was shut down in
\* good order leaves.
InitDisk ==
    \E n \in 0..MaxRecords :
        /\ records = [k \in 1..n |-> RecordLine(k)]
        /\ hashes = HashesAfter(n)
        /\ hashesExtra = 0
        /\ recordNumber = [s \in Sums |->
                              IF s.digest <= n THEN File(FormatInt(s.digest - 1))
                              ELSE NoFile]
        /\ binaryGz = [s \in Sums |->
                          IF s.digest <= n THEN BinaryGz(s.digest) ELSE NoBinary]
        /\ faults = 0
        /\ truncated = FALSE

(***************************************************************************)
(* Faults of the files between two runs of the process.                   *)
(***************************************************************************)
Fault(changes) ==
    /\ pcServe = "start"
    /\ faults < MaxFaults
    /\ faults' = faults + 1
    /\ changes
    /\ UNCHANGED <<sdkVars, callVars, histVars, serveVars>>

\* sum/hashes loses its last 32 bytes.
TruncateHashes ==
    Fault(/\ Len(hashes) > 0
          /\ hashesExtra = 0
          /\ hashes' = SubSeq(hashes, 1, Len(hashes) - 1)
          /\ truncated' = TRUE
          /\ UNCHANGED <<records, hashesExtra, recordNumber, binaryGz>>)

\* sum/hashes gains half a hash.
ExtendHashes ==
    Fault(/\ hashesExtra = 0
          /\ hashesExtra' = HashSize \div 2
          /\ UNCHANGED <<records, hashes, recordNumber, binaryGz, truncated>>)

\* One hash of sum/hashes is overwritten.
CorruptHash ==
    Fault(\E i \in 1..Len(hashes) :
             /\ hashes[i] # GarbageHash
             /\ hashes' = [hashes EXCEPT ![i] = GarbageHash]
             /\ UNCHANGED <<records, hashesExtra, recordNumber, binaryGz, truncated>>)

\* One line of sum/records is overwritten.
CorruptRecord ==
    Fault(\E k \in 1..Len(records) :
             /\ records[k] # GarbledLine
             /\ records' = [records EXCEPT ![k] = GarbledLine]
             /\ UNCHANGED <<hashes, hashesExtra, recordNumber, binaryGz, truncated>>)

\* sum/records loses its last line.
TruncateRecords ==
    Fault(/\ Len(records) > 0
          /\ records' = SubSeq(records, 1, Len(records) - 1)
          /\ UNCHANGED <<hashes, hashesExtra, recordNumber, binaryGz, truncated>>)

\* A recordnumber file is removed, emptied, given a trailing newline or
\* given another number.
DamageRecordNumber ==
    Fault(\E s \in Sums :
             /\ recordNumber[s].exists
             /\ \E new \in {NoFile, File(<<>>),
                            File(recordNumber[s].data \o <<"\n">>),
                            File(FormatInt(s.digest))} :
                    /\ new # recordNumber[s]
                    /\ recordNumber' = [recordNumber EXCEPT ![s] = new]
             /\ UNCHANGED <<records, hashes, hashesExtra, binaryGz, truncated>>)

\* A binary.gz is removed, made something that is no gzip stream, or made
\* the gzip of other contents.
DamageBinary ==
    Fault(\E s \in Sums :
             /\ binaryGz[s].exists
             /\ \E new \in {NoBinary, NotGzip, BinaryGz(0)} :
                    binaryGz' = [binaryGz EXCEPT ![s] = new]
             /\ UNCHANGED <<records, hashes, hashesExtra, recordNumber, truncated>>)

(***************************************************************************)
(* verifySumState                                                          *)
(***************************************************************************)
\* treeSize: the number of records in sum/records.
treeSize == Len(records)

\* serverOps.ReadRecords(ctx, id, 1)[0]
ReadRecord(id) == records[id + 1]

\* hashesFile.Stat().Size()
HashesFileSize == HashSize * Len(hashes) + hashesExtra

Ok(count) == [count |-> count, err |-> "nil"]
Failed(message) == [count |-> -1, err |-> message]

\* Lines 433-488: the checks of the last record, of which the check of the
\* recordnumber file is made or not.
VerifyLastRecord(numRecords, checkRecordNumber) ==
    LET lastRecordNum == numRecords - 1
        line == ReadRecord(lastRecordNum)
        computed == StoredHashes(lastRecordNum, LineBytes(line), hashes)
        offset == StoredHashIndex(0, lastRecordNum)
        stored == SubSeq(hashes, offset + 1, offset + Len(computed))
        number == recordNumber[line.Sum]
        parsed == ParseInt(number.data)
        binary == binaryGz[line.Sum]
    IN  IF HashesFileSize < HashSize * (offset + Len(computed))
        THEN Failed("reading hashes for verification")
        ELSE IF computed # stored
        THEN Failed("hash mismatch for last record")
        ELSE IF ~line.wellformed
        THEN Failed("parsing last record")
        ELSE IF checkRecordNumber /\ ~number.exists
        THEN Failed("open recordnumber")
        ELSE IF checkRecordNumber /\ ~parsed.ok
        THEN Failed("parse recordnumber from file")
        ELSE IF checkRecordNumber /\ parsed.num # lastRecordNum
        THEN Failed("inconsistent last recordnumber")
        ELSE IF ~binary.exists
        THEN Failed("open binary.gz for verification")
        ELSE IF ~binary.gzip
        THEN Failed("gzip reader for binary.gz")
        ELSE IF BinarySum(binary.contents) # line.Sum
        THEN Failed("latest binary.gz sum mismatch")
        ELSE Ok(numRecords)

\* Lines 421-436, then the checks of the last record.
VerifyWith(checkRecordNumber) ==
    LET numRecords == treeSize
    IN  IF StoredHashCount(numRecords) * HashSize # HashesFileSize
        THEN Failed("inconsistent size of hashes file")
        ELSE IF numRecords = 0
        THEN Ok(0)
        ELSE VerifyLastRecord(numRecords, checkRecordNumber)

\* A variant that does not look at the recordnumber file.
verifySumStateWithoutRecordNumber == VerifyWith(FALSE)

\* What verifySumState returns for the files as they are.
verifySumState == VerifyWith(TRUE)

(***************************************************************************)
(* serve, from the call of verifySumState on.                              *)
(***************************************************************************)
Listeners == {"http", "https", "admin"}

\* log.Fatal: the process exits and with it every goroutine.
Exited == pcServe = "exited"

ServeStep(from, to) ==
    /\ pcServe = from
    /\ pcServe' = to

\* Lines 226-231 with result what verifySumState returned, fatal whether an
\* error ends the process, and newHashes what is in sum/hashes afterwards.
VerifyStep(result, fatal, newHashes) ==
    /\ ServeStep("start", IF fatal THEN "exited" ELSE "initSDK")
    /\ verifyResult' = result
    /\ hashes' = newHashes
    /\ UNCHANGED <<records, hashesExtra, recordNumber, binaryGz>>
    /\ UNCHANGED <<started, accepted>>
    /\ UNCHANGED <<sdkVars, callVars, histVars, faultVars>>

\* A variant that logs the error and goes on.
serve_VerifySumStateNotFatal == VerifyStep(verifySumState, FALSE, hashes)

\* A variant that cuts sum/hashes to the size the records ask for.
serve_VerifySumStateRepairs ==
    VerifyStep(verifySumState, verifySumState.err # "nil",
               IF Len(hashes) > StoredHashCount(treeSize)
               THEN SubSeq(hashes, 1, StoredHashCount(treeSize))
               ELSE hashes)

\* Lines 226-231: verifySumState, and log.Fatal on its error.
serve_VerifySumState ==
    VerifyStep(verifySumState, verifySumState.err # "nil", hashes)

\* Line 233: initSDK, which ends the process when config.SDKDir cannot be
\* read.
serve_InitSDK ==
    /\ \/ /\ ServeStep("initSDK", "coordinate")
          /\ installed' = initSDK(sdkDir)
          /\ installedList' = sdkUpdateInstalledList(initSDK(sdkDir), supportedList)
       \/ /\ ServeStep("initSDK", "exited")
          /\ UNCHANGED <<installed, installedList>>
    /\ UNCHANGED <<sdkDir, supportedList, status, sdkMu, fetchMu, tmpDirs, catalog>>
    /\ UNCHANGED <<verifyResult, started, accepted>>
    /\ UNCHANGED <<callVars, histVars, diskVars, faultVars>>

\* Line 236: go coordinateBuilds()
serve_GoCoordinateBuilds ==
    /\ ServeStep("coordinate", "signal")
    /\ started' = started \cup {"coordinator"}
    /\ UNCHANGED <<verifyResult, accepted>>
    /\ UNCHANGED <<sdkVars, callVars, histVars, diskVars, faultVars>>

\* Lines 239-245: the goroutine that waits for SIGINT or SIGTERM.
serve_GoSignal ==
    /\ ServeStep("signal", "handlers")
    /\ started' = started \cup {"signal"}
    /\ UNCHANGED <<verifyResult, accepted>>
    /\ UNCHANGED <<sdkVars, callVars, histVars, diskVars, faultVars>>

\* Lines 247-324: the handlers and the log files; a bad signer key or a log
\* file that cannot be opened ends the process.
serve_Handlers ==
    /\ \/ ServeStep("handlers", "listenHTTP")
       \/ ServeStep("handlers", "exited")
    /\ UNCHANGED <<verifyResult, started, accepted>>
    /\ UNCHANGED <<sdkVars, callVars, histVars, diskVars, faultVars>>

\* A listener is started when it is configured, at its place in serve.
Listen(from, to, listener) ==
    /\ ServeStep(from, to)
    /\ \/ started' = started \cup {listener}
       \/ UNCHANGED started
    /\ UNCHANGED <<verifyResult, accepted>>
    /\ UNCHANGED <<sdkVars, callVars, histVars, diskVars, faultVars>>

\* Lines 327-337
serve_ListenHTTP == Listen("listenHTTP", "listenHTTPS", "http")

\* Lines 338-354
serve_ListenHTTPS == Listen("listenHTTPS", "listenAdmin", "https")

\* Lines 355-362
serve_ListenAdmin == Listen("listenAdmin", "running", "admin")

\* A started listener accepts a request.
Accept(listener) ==
    /\ ~Exited
    /\ listener \in started \cap Listeners
    /\ listener \notin accepted
    /\ accepted' = accepted \cup {listener}
    /\ UNCHANGED <<pcServe, verifyResult, started>>
    /\ UNCHANGED <<sdkVars, callVars, histVars, diskVars, faultVars>>

\* A started listener fails: log.Fatal in its goroutine.
ListenerFails(listener) ==
    /\ ~Exited
    /\ listener \in started \cap Listeners
    /\ pcServe' = "exited"
    /\ UNCHANGED <<verifyResult, started, accepted>>
    /\ UNCHANGED <<sdkVars, callVars, histVars, diskVars, faultVars>>

NotVerified == [count |-> -1, err |-> "not called"]

\* serve has not reached verifySumState.
InitServe ==
    /\ pcServe = "start"
    /\ verifyResult = NotVerified
    /\ started = {}
    /\ accepted = {}

\* The toolchain manager before initSDK.
InitSDKBefore ==
    /\ sdkDir = DiskNames
    /\ installed = {}
    /\ supportedList = <<>>
    /\ installedList = <<>>
    /\ status = [v \in SDKVersions |-> Absent]
    /\ sdkMu = 0
    /\ fetchMu = 0
    /\ tmpDirs = {}
    /\ catalog = [v \in SDKVersions |->
                      IF v \in PastReleases THEN "archive" ELSE "absent"]

\* serve is up, over an empty log.
InitServed ==
    /\ records = <<>>
    /\ hashes = <<>>
    /\ hashesExtra = 0
    /\ recordNumber = [s \in Sums |-> NoFile]
    /\ binaryGz = [s \in Sums |-> NoBinary]
    /\ faults = 0
    /\ truncated = FALSE
    /\ pcServe = "running"
    /\ verifyResult = Ok(0)
    /\ started = {"coordinator", "signal", "http"}
    /\ accepted = {}

(***************************************************************************)
(* installedSDK and ensureMostRecentSDK.                                   *)
(*                                                                         *)
(* Time is counted in half hours.  A step that takes the sdk mutex and     *)
(* releases it again without a call in between is one action.              *)
(***************************************************************************)
\* time.Hour, in units of the clock.
Hour == 2

\* The latest time of the clock.
MaxTime == 3

\* The zero time.Time, the value of sdk.lastSupported before the first
\* refresh: longer ago than any duration.
ZeroTime == 0 - Hour - 1

\* What goreleases.ListSupported returns when it succeeds: the versions of
\* the supported releases, newest first.
SupportedLists == {<<Go2_0, Go1_13>>, <<Go1_13, Go1_12>>}

\* What it returns when it fails.
ListSupportedFailed == <<"error">>

ErrNoSupported == Errorf(errServer, "no supported go versions")

InitSupport ==
    /\ clock = 0
    /\ lastSupported = ZeroTime
    /\ pcInst = [p \in Procs |-> "idle"]
    /\ caller = [p \in Procs |-> "none"]
    /\ now = [p \in Procs |-> 0]
    /\ resp = [p \in Procs |-> ListSupportedFailed]
    /\ retSupported = [p \in Procs |-> <<>>]
    /\ retRemaining = [p \in Procs |-> <<>>]
    /\ requests = <<>>
    /\ lastGood = supportedList

\* Time passes.
Tick ==
    /\ clock < MaxTime
    /\ clock' = clock + 1
    /\ UNCHANGED <<lastSupported, pcInst, caller, now, resp, retSupported,
                   retRemaining, requests, lastGood>>
    /\ UNCHANGED <<sdkVars, callVars, histVars>>

\* What a step of installedSDK leaves alone, besides what it names.
SupportFrame ==
    /\ UNCHANGED <<sdkDir, installed, status, sdkMu, fetchMu, tmpDirs, catalog>>
    /\ UNCHANGED <<callVars, histVars>>
    /\ UNCHANGED clock

\* Line 195: a goroutine that is in no call calls installedSDK, from who,
\* and reads the time.
installedSDK_Now(p, who) ==
    /\ pcInst[p] = "idle"
    /\ pc[p] \in {"idle", "done"}
    /\ pcInst' = [pcInst EXCEPT ![p] = "lock"]
    /\ caller' = [caller EXCEPT ![p] = who]
    /\ now' = [now EXCEPT ![p] = clock]
    /\ UNCHANGED <<lastSupported, resp, retSupported, retRemaining, requests,
                   lastGood>>
    /\ UNCHANGED <<supportedList, installedList>>
    /\ SupportFrame

\* A variant of lines 196-200 without the sdk.Unlock() of line 200: the
\* request is made with the mutex held.
installedSDK_LockHeldInRequest(p) ==
    /\ pcInst[p] = "lock"
    /\ sdkMu = 0
    /\ IF now[p] - lastSupported > Hour
       THEN /\ lastSupported' = now[p]
            /\ pcInst' = [pcInst EXCEPT ![p] = "request"]
            /\ sdkMu' = p
            /\ UNCHANGED <<retSupported, retRemaining>>
       ELSE /\ retSupported' = [retSupported EXCEPT ![p] = supportedList]
            /\ retRemaining' = [retRemaining EXCEPT ![p] = installedList]
            /\ pcInst' = [pcInst EXCEPT ![p] = "returned"]
            /\ UNCHANGED <<lastSupported, sdkMu>>
    /\ UNCHANGED <<caller, now, resp, requests, lastGood, clock>>
    /\ UNCHANGED <<sdkDir, installed, supportedList, installedList, status,
                   fetchMu, tmpDirs, catalog>>
    /\ UNCHANGED <<callVars, histVars>>

\* Lines 196-200 and 216-219: sdk.Lock(); when the list is found older than
\* an hour, sdk.lastSupported is set and the mutex released for the request;
\* otherwise the lists are returned.
installedSDK_Lock(p) ==
    /\ pcInst[p] = "lock"
    /\ sdkMu = 0
    /\ IF now[p] - lastSupported > Hour
       THEN /\ lastSupported' = now[p]
            /\ pcInst' = [pcInst EXCEPT ![p] = "request"]
            /\ UNCHANGED <<retSupported, retRemaining>>
       ELSE /\ retSupported' = [retSupported EXCEPT ![p] = supportedList]
            /\ retRemaining' = [retRemaining EXCEPT ![p] = installedList]
            /\ pcInst' = [pcInst EXCEPT ![p] = "returned"]
            /\ UNCHANGED lastSupported
    /\ UNCHANGED <<caller, now, resp, requests, lastGood>>
    /\ UNCHANGED <<supportedList, installedList>>
    /\ SupportFrame

\* Line 203: goreleases.ListSupported() is called, and returns.
installedSDK_ListSupported(p) ==
    /\ pcInst[p] = "request"
    /\ \E r \in SupportedLists \cup {ListSupportedFailed} :
           resp' = [resp EXCEPT ![p] = r]
    /\ requests' = Append(requests, [now |-> now[p], start |-> clock])
    /\ pcInst' = [pcInst EXCEPT ![p] = "relock"]
    /\ UNCHANGED <<lastSupported, caller, now, retSupported, retRemaining,
                   lastGood>>
    /\ UNCHANGED <<supportedList, installedList>>
    /\ SupportFrame

\* Lines 204-219 with updated the value sdk.installedList gets after a
\* request that succeeded: sdk.Lock(); a request that failed is only logged;
\* one that succeeded replaces sdk.supportedList, and sdkUpdateInstalledList
\* is called; the lists are returned.
RelockWith(p, updated) ==
    /\ pcInst[p] = "relock"
    /\ sdkMu = 0
    /\ LET failed == resp[p] = ListSupportedFailed
           newSupported == IF failed THEN supportedList ELSE resp[p]
           newInstalled == IF failed THEN installedList ELSE updated
       IN  /\ supportedList' = newSupported
           /\ installedList' = newInstalled
           /\ lastGood' = IF failed THEN lastGood ELSE resp[p]
           /\ retSupported' = [retSupported EXCEPT ![p] = newSupported]
           /\ retRemaining' = [retRemaining EXCEPT ![p] = newInstalled]
    /\ pcInst' = [pcInst EXCEPT ![p] = "returned"]
    /\ UNCHANGED <<lastSupported, caller, now, resp, requests>>
    /\ SupportFrame

\* A variant without the call of sdkUpdateInstalledList.
installedSDK_RelockKeepsInstalledList(p) == RelockWith(p, installedList)

installedSDK_Relock(p) ==
    RelockWith(p, sdkUpdateInstalledList(installed, resp[p]))

\* The call of p is over: its locals, and those of the call of ensureSDK it
\* made, are gone.
EndCall(p) ==
    /\ pcInst' = [pcInst EXCEPT ![p] = "idle"]
    /\ caller' = [caller EXCEPT ![p] = "none"]
    /\ now' = [now EXCEPT ![p] = 0]
    /\ resp' = [resp EXCEPT ![p] = ListSupportedFailed]
    /\ retSupported' = [retSupported EXCEPT ![p] = <<>>]
    /\ retRemaining' = [retRemaining EXCEPT ![p] = <<>>]
    /\ pc' = [pc EXCEPT ![p] = "idle"]
    /\ goversion' = [goversion EXCEPT ![p] = <<>>]
    /\ ret' = [ret EXCEPT ![p] = Nil]
    /\ contacted' = [contacted EXCEPT ![p] = FALSE]
    /\ fetched' = [fetched EXCEPT ![p] = FALSE]
    /\ locked' = [locked EXCEPT ![p] = FALSE]
    /\ seen' = [seen EXCEPT ![p] = {}]
    /\ UNCHANGED <<clock, lastSupported, requests, lastGood>>
    /\ UNCHANGED <<sdkVars, histVars>>

\* A caller other than ensureMostRecentSDK has its lists.
installedSDK_Return(p) ==
    /\ pcInst[p] = "returned"
    /\ caller[p] = "installedSDK"
    /\ EndCall(p)

\* What ensureMostRecentSDK returns when the list it got is empty (lines
\* 184-186) and when ensureSDK has returned (lines 188-191).
Returns(version, err) == [version |-> version, err |-> err]

ensureMostRecentSDK_Result(p) ==
    IF retSupported[p] = <<>> THEN Returns(<<>>, ErrNoSupported)
    ELSE IF ret[p] # Nil THEN Returns(<<>>, ret[p])
    ELSE Returns(retSupported[p][1], Nil)

\* Lines 184-186: no supported version; the call returns.
ensureMostRecentSDK_Empty(p) ==
    /\ pcInst[p] = "returned"
    /\ caller[p] = "ensureMostRecentSDK"
    /\ retSupported[p] = <<>>
    /\ EndCall(p)

\* Line 187 with version the argument given to ensureSDK: the call of
\* ensureSDK begins.
EnsureWith(p, version) ==
    /\ pcInst[p] = "returned"
    /\ caller[p] = "ensureMostRecentSDK"
    /\ retSupported[p] # <<>>
    /\ ensureSDK_Validate(p, version)
    /\ pcInst' = [pcInst EXCEPT ![p] = "ensuring"]
    /\ UNCHANGED <<clock, lastSupported, caller, now, resp, retSupported,
                   retRemaining, requests, lastGood>>

\* A variant that asks for the last supported version.
ensureMostRecentSDK_EnsureLast(p) ==
    EnsureWith(p, IF retSupported[p] = <<>> THEN <<>>
                  ELSE retSupported[p][Len(retSupported[p])])

ensureMostRecentSDK_Ensure(p) ==
    EnsureWith(p, IF retSupported[p] = <<>> THEN <<>> ELSE retSupported[p][1])

\* Lines 188-191: ensureSDK has returned; the call returns.
ensureMostRecentSDK_Return(p) ==
    /\ pcInst[p] = "ensuring"
    /\ pc[p] = "done"
    /\ EndCall(p)

(***************************************************************************)
(* Appends to the transparency log, and the shutdown on a signal.          *)
(*                                                                         *)
(* An append takes addSumMutex, writes the record line to sum/records,     *)
(* then the stored hashes to sum/hashes, then recordnumber in the          *)
(* directory of the artifact, and releases the mutex.                      *)
(***************************************************************************)
\* The goroutine started at serve.go:241, as a holder of addSumMutex.
SignalGoroutine == NumProcs + 1

InitLog ==
    /\ addSumMutex = 0
    /\ pcAddSum = [p \in Procs |-> "idle"]
    /\ pcSignal = "receive"
    /\ sigc = 0
    /\ sigDuringAppend = FALSE
    /\ interrupted = 0

\* What a step of an append leaves alone.
AppendFrame ==
    /\ UNCHANGED <<pcSignal, sigc, sigDuringAppend, interrupted>>
    /\ UNCHANGED <<sdkVars, callVars, histVars, faultVars, serveVars>>

\* addSumMutex.Lock() of an append.  The artifact of the build is in its
\* directory by then.
addSum_Lock(p) ==
    /\ ~Exited
    /\ pcAddSum[p] = "idle"
    /\ Len(records) < MaxRecords
    /\ addSumMutex = 0
    /\ addSumMutex' = p
    /\ pcAddSum' = [pcAddSum EXCEPT ![p] = "records"]
    /\ LET k == Len(records) + 1
       IN  binaryGz' = [binaryGz EXCEPT ![BinarySum(k)] = BinaryGz(k)]
    /\ UNCHANGED <<records, hashes, hashesExtra, recordNumber>>
    /\ AppendFrame

\* The first write: the record line, to sum/records.
addSum_WriteRecord(p) ==
    /\ ~Exited
    /\ pcAddSum[p] = "records"
    /\ records' = Append(records, RecordLine(Len(records) + 1))
    /\ pcAddSum' = [pcAddSum EXCEPT ![p] = "hashes"]
    /\ UNCHANGED <<hashes, hashesExtra, recordNumber, binaryGz, addSumMutex>>
    /\ AppendFrame

\* The second write: the stored hashes of the record, to sum/hashes.
addSum_WriteHashes(p) ==
    /\ ~Exited
    /\ pcAddSum[p] = "hashes"
    /\ LET n == Len(records) - 1
       IN  hashes' = hashes \o StoredHashes(n, LineBytes(records[n + 1]), hashes)
    /\ pcAddSum' = [pcAddSum EXCEPT ![p] = "recordnumber"]
    /\ UNCHANGED <<records, hashesExtra, recordNumber, binaryGz, addSumMutex>>
    /\ AppendFrame

\* The third write: recordnumber, in the directory of the artifact.
addSum_WriteRecordNumber(p) ==
    /\ ~Exited
    /\ pcAddSum[p] = "recordnumber"
    /\ LET n == Len(records) - 1
       IN  recordNumber' = [recordNumber EXCEPT ![records[n + 1].Sum] =
                               File(FormatInt(n))]
    /\ pcAddSum' = [pcAddSum EXCEPT ![p] = "unlock"]
    /\ UNCHANGED <<records, hashes, hashesExtra, binaryGz, addSumMutex>>
    /\ AppendFrame

\* addSumMutex.Unlock() of an append.
addSum_Unlock(p) ==
    /\ ~Exited
    /\ pcAddSum[p] = "unlock"
    /\ addSumMutex' = 0
    /\ pcAddSum' = [pcAddSum EXCEPT ![p] = "idle"]
    /\ UNCHANGED diskVars
    /\ AppendFrame

\* What a step of the shutdown leaves alone.
SignalFrame ==
    /\ UNCHANGED <<pcAddSum, interrupted>>
    /\ UNCHANGED <<sdkVars, callVars, histVars, diskVars, faultVars>>
    /\ UNCHANGED <<verifyResult, started, accepted>>

\* SIGINT or SIGTERM is delivered: signal.Notify puts it in sigc, which
\* holds one signal.
Signal ==
    /\ ~Exited
    /\ "signal" \in started
    /\ sigc = 0
    /\ sigc' = 1
    /\ UNCHANGED <<addSumMutex, pcSignal, sigDuringAppend, pcServe>>
    /\ SignalFrame

\* Line 242: <-sigc
signal_Receive ==
    /\ ~Exited
    /\ pcSignal = "receive"
    /\ sigc > 0
    /\ sigc' = sigc - 1
    /\ pcSignal' = "lock"
    /\ sigDuringAppend' = (addSumMutex \in Procs)
    /\ UNCHANGED <<addSumMutex, pcServe>>
    /\ SignalFrame

\* Line 243 with wait whether Lock waits for the mutex to be free.
SignalLockWith(wait) ==
    /\ ~Exited
    /\ pcSignal = "lock"
    /\ wait => addSumMutex = 0
    /\ addSumMutex' = IF addSumMutex = 0 THEN SignalGoroutine ELSE addSumMutex
    /\ pcSignal' = "fatal"
    /\ UNCHANGED <<sigc, sigDuringAppend, pcServe>>
    /\ SignalFrame

\* A variant that does not wait for the append in progress.
signal_TryLock == SignalLockWith(FALSE)

\* Line 243: addSumMutex.Lock()
signal_Lock == SignalLockWith(TRUE)

\* Line 244: log.Fatal
signal_Fatal ==
    /\ ~Exited
    /\ pcSignal = "fatal"
    /\ pcSignal' = "exited"
    /\ pcServe' = "exited"
    /\ UNCHANGED <<addSumMutex, sigc, sigDuringAppend>>
    /\ SignalFrame

\* The writes the append in progress has made.
WritesMade ==
    IF \E p \in Procs : pcAddSum[p] = "hashes" THEN 1
    ELSE IF \E p \in Procs : pcAddSum[p] = "recordnumber" THEN 2
    ELSE IF \E p \in Procs : pcAddSum[p] = "unlock" THEN 3
    ELSE 0

\* The process ends without a signal caught: log.Fatal of a listener, or
\* the process is killed.
Kill ==
    /\ ~Exited
    /\ pcServe' = "exited"
    /\ interrupted' = IF addSumMutex \in Procs THEN WritesMade ELSE interrupted
    /\ UNCHANGED <<addSumMutex, pcAddSum, pcSignal, sigc, sigDuringAppend>>
    /\ UNCHANGED <<verifyResult, started, accepted>>
    /\ UNCHANGED <<sdkVars, callVars, histVars, diskVars, faultVars>>

\* The next run of "gobuild serve" over the files the ended process left.
Restart ==
    /\ Exited
    /\ pcServe' = "start"
    /\ verifyResult' = NotVerified
    /\ started' = {}
    /\ accepted' = {}
    /\ addSumMutex' = 0
    /\ pcAddSum' = [p \in Procs |-> "gone"]
    /\ pcSignal' = "gone"
    /\ sigc' = 0
    /\ UNCHANGED <<sigDuringAppend, interrupted>>
    /\ UNCHANGED <<sdkVars, callVars, histVars, diskVars, faultVars>>

(***************************************************************************)
(* The HTTP surface: the handlers serve registers on its mux              *)
(* (serve.go:249-301), serveHome (home.go), failf, serveLog and            *)
(* serveGzipFile (serve.go:365-419).                                       *)
(***************************************************************************)
\* The patterns registered on the mux.
PathRoot == <<"/">>
PathRobots == <<"/", "r", "o", "b", "o", "t", "s", ".", "t", "x", "t">>
PathFavicon == <<"/", "f", "a", "v", "i", "c", "o", "n", ".", "i", "c", "o">>
PathFaviconBuilding ==
    <<"/", "f", "a", "v", "i", "c", "o", "n", "-", "b", "u", "i", "l", "d",
      "i", "n", "g", ".", "p", "n", "g">>
PathFaviconError ==
    <<"/", "f", "a", "v", "i", "c", "o", "n", "-", "e", "r", "r", "o", "r",
      ".", "p", "n", "g">>
PathEmptyConfig ==
    <<"/", "e", "m", "p", "t", "y", "c", "o", "n", "f", "i", "g">>
PathGopherDance ==
    <<"/", "i", "m", "g", "/", "g", "o", "p", "h", "e", "r", "-", "d", "a",
      "n", "c", "e", "-", "l", "o", "n", "g", ".", "g", "i", "f">>
PathTlogLookup ==
    <<"/", "t", "l", "o", "g", "/", "l", "o", "o", "k", "u", "p", "/">>
PathTlogLatest ==
    <<"/", "t", "l", "o", "g", "/", "l", "a", "t", "e", "s", "t">>
PathTlogTile == <<"/", "t", "l", "o", "g", "/", "t", "i", "l", "e", "/">>
PathOldM == <<"/", "m", "/">>
PathOldB == <<"/", "b", "/">>
PathOldR == <<"/", "r", "/">>

\* Lines 250-267 and 284: the handlers that write a fixed body.
StaticPatterns ==
    {PathRobots, PathFavicon, PathFaviconBuilding, PathFaviconError,
     PathEmptyConfig, PathGopherDance}

\* Lines 278-281: "/tlog" followed by each of sumdb.ServerPaths.
TlogPatterns == {PathTlogLookup, PathTlogLatest, PathTlogTile}

\* Lines 291-299: the old prefixes.
OldPatterns == {PathOldM, PathOldB, PathOldR}

\* The patterns of the mux, those of the log only when config.SignerKey is
\* set (line 269).
Registered(withSigner) ==
    StaticPatterns \cup OldPatterns \cup {PathRoot}
        \cup (IF withSigner THEN TlogPatterns ELSE {})

\* http.ServeMux: a pattern that ends in "/" matches the paths it is a
\* prefix of, any other pattern matches the path equal to it, and the
\* longest matching pattern wins.
Matches(pattern, path) ==
    IF pattern[Len(pattern)] = "/" THEN HasPrefix(path, pattern)
    ELSE pattern = path

mux_Handler(withSigner, path) ==
    CHOOSE pattern \in Registered(withSigner) :
        /\ Matches(pattern, path)
        /\ \A other \in Registered(withSigner) :
               Matches(other, path) => Len(other) <= Len(pattern)

\* Paths that are requested besides the patterns themselves.
ReqModule == <<"/", "a", ".", "b">>
ReqBuild ==
    <<"/", "a", ".", "b", "/", "@", "v", "/", "v", "1", "/", "l", "-", "a",
      "-", "g", "o", "1", ".", "1", "3", "/">>
ReqNoDot == <<"/", "x">>
ReqOldModule == <<"/", "m", "/", "a", ".", "b">>
ReqOldBuild ==
    <<"/", "b", "/", "a", ".", "b", "/", "@", "v", "/", "v", "1", "/", "l",
      "-", "a", "-", "g", "o", "1", ".", "1", "3", "/">>
ReqOldResult ==
    <<"/", "r", "/", "a", ".", "b", "/", "@", "v", "/", "v", "1", "/", "l",
      "-", "a", "-", "g", "o", "1", ".", "1", "3", "/", "0", "m", "/">>
ReqTlogTile ==
    <<"/", "t", "l", "o", "g", "/", "t", "i", "l", "e", "/", "8", "/", "0",
      "/", "0", "0", "0">>

RequestPaths ==
    StaticPatterns \cup {PathRoot, PathTlogLatest}
        \cup {ReqModule, ReqBuild, ReqNoDot, ReqOldModule, ReqOldBuild,
              ReqOldResult, ReqTlogTile}

Methods == {"GET", "HEAD", "POST"}

\* The codings and the q parameters of the Accept-Encoding values.
Gzip == <<"g", "z", "i", "p">>
Identity == <<"i", "d", "e", "n", "t", "i", "t", "y">>
QZero == <<";", "q", "=", "0">>
QOne == <<";", "q", "=", "1">>

\* One element of an Accept-Encoding value: a coding, alone or with a q.
Elements == {coding \o q : coding \in {Gzip, Identity}, q \in {<<>>, QZero, QOne}}

\* The values of up to n elements, separated by "," or by ", ".
RECURSIVE AcceptEncodings(_)
AcceptEncodings(n) ==
    IF n = 0 THEN {<<>>}
    ELSE LET shorter == AcceptEncodings(n - 1)
         IN  shorter
                 \cup Elements
                 \cup {v \o sep \o e : v \in shorter \ {<<>>},
                                       sep \in {<<",">>, <<",", " ">>},
                                       e \in Elements}

\* strings.TrimSpace, for the space character.
RECURSIVE TrimSpace(_)
TrimSpace(s) ==
    IF s = <<>> THEN s
    ELSE IF Head(s) = " " THEN TrimSpace(Tail(s))
    ELSE IF s[Len(s)] = " " THEN TrimSpace(SubSeq(s, 1, Len(s) - 1))
    ELSE s

\* acceptsGzip, serve.go:405-419.  The loop from element i of t on: "yes"
\* and "no" for the value returned, "panic" for the index out of range at
\* line 411, where t[1] is read from a t of one element.
RECURSIVE acceptsGzipFrom(_, _)
acceptsGzipFrom(t, i) ==
    IF i > Len(t) THEN "no"
    ELSE LET e == TrimSpace(t[i])
             tt == Split(e, ";")
         IN  IF Len(tt) > 1 /\ Len(t) < 2 THEN "panic"
             ELSE IF Len(tt) > 1 /\ t[2] = <<"q", "=", "0">>
                  THEN acceptsGzipFrom(t, i + 1)
             ELSE IF tt[1] = Gzip THEN "yes"
             ELSE acceptsGzipFrom(t, i + 1)

acceptsGzip(acceptEncoding) == acceptsGzipFrom(Split(acceptEncoding, ","), 1)

\* A request, and the response written so far: status 0 when no header has
\* been written.
Request(method, path, acceptEncoding) ==
    [method |-> method, path |-> path, acceptEncoding |-> acceptEncoding]

Response(code, contentEncoding, location, body) ==
    [status |-> code, contentEncoding |-> contentEncoding,
     location |-> location, body |-> body]

NoRequest == Request("", <<>>, <<>>)
NoResponse == Response(0, "", <<>>, "")

\* No request has arrived.
InitRequest ==
    /\ pcHTTP = "idle"
    /\ request = NoRequest
    /\ muxPattern = <<>>
    /\ response = NoResponse
    /\ failure = Nil

InitHTTP ==
    /\ InitRequest
    /\ signerKey = FALSE

\* What the handling of a request leaves alone.
HTTPFrame ==
    /\ UNCHANGED signerKey
    /\ UNCHANGED <<sdkVars, callVars, histVars, diskVars, faultVars, serveVars>>

\* A request arrives at the listener.
Receive(method, path, acceptEncoding) ==
    /\ pcHTTP = "idle"
    /\ request' = Request(method, path, acceptEncoding)
    /\ pcHTTP' = "mux"
    /\ UNCHANGED <<muxPattern, response, failure>>
    /\ HTTPFrame

\* The mux picks the handler.
mux_Dispatch ==
    /\ pcHTTP = "mux"
    /\ muxPattern' = mux_Handler(signerKey, request.path)
    /\ pcHTTP' = "handler"
    /\ UNCHANGED <<request, response, failure>>
    /\ HTTPFrame

\* The handler has written the response r.
Answer(r) ==
    /\ response' = r
    /\ pcHTTP' = "answered"
    /\ UNCHANGED <<request, muxPattern>>
    /\ HTTPFrame

\* Lines 250-267 and 284-288: the body is written, whatever the method.
serve_Static ==
    /\ pcHTTP = "handler"
    /\ muxPattern \in StaticPatterns
    /\ Answer(Response(StatusOK, "", <<>>, "fixed"))
    /\ UNCHANGED failure

\* Lines 291-299: http.Redirect to the path without its first two bytes,
\* whatever the method.
serve_OldPrefix ==
    /\ pcHTTP = "handler"
    /\ muxPattern \in OldPatterns
    /\ Answer(Response(StatusTemporaryRedirect, "",
                       SubSeq(request.path, 3, Len(request.path)), ""))
    /\ UNCHANGED failure

\* Lines 275-281: the handler of golang.org/x/mod/sumdb answers; it is not
\* code of the repository, and any status is taken as possible.
serve_Tlog ==
    /\ pcHTTP = "handler"
    /\ muxPattern \in TlogPatterns
    /\ \E code \in {StatusOK, StatusBadRequest, StatusNotFound,
                    StatusMethodNotAllowed, StatusInternalServerError} :
           Answer(Response(code, "", <<>>, "tlog"))
    /\ UNCHANGED failure

\* home.go:13-16.
serveHome_MethodNotAllowed ==
    /\ pcHTTP = "handler"
    /\ muxPattern = PathRoot
    /\ request.method # "GET"
    /\ Answer(Response(StatusMethodNotAllowed, "", <<>>, "error"))
    /\ UNCHANGED failure

\* failf, serve.go:365-381: the error is rendered with the status of its
\* kind.
Failf(err) ==
    /\ Answer(Response(failf(err), "", <<>>, "error"))
    /\ failure' = err

\* strings.Contains(s, c) for a one-character c.
Contains(s, c) == IndexOf(s, c) # 0

\* home.go:18-50: the landing page; the parameter m redirects, and the
\* template may fail.
serveHome_Root ==
    /\ pcHTTP = "handler"
    /\ muxPattern = PathRoot
    /\ request.method = "GET"
    /\ request.path = PathRoot
    /\ \/ /\ Answer(Response(StatusTemporaryRedirect, "", ReqModule, ""))
          /\ UNCHANGED failure
       \/ /\ Answer(Response(StatusOK, "", <<>>, "page"))
          /\ UNCHANGED failure
       \/ Failf(Errorf(errServer, "executing template"))

\* home.go:53-57: the first element of the path has no ".".
serveHome_NotFound ==
    /\ pcHTTP = "handler"
    /\ muxPattern = PathRoot
    /\ request.method = "GET"
    /\ request.path # PathRoot
    /\ ~Contains(Split(Tail(request.path), "/")[1], ".")
    /\ Answer(Response(StatusNotFound, "", <<>>, "error"))
    /\ UNCHANGED failure

\* home.go:59-82: the request goes to serveModules when the path has no
\* "@", and to parseRequest otherwise.
serveHome_Page ==
    /\ pcHTTP = "handler"
    /\ muxPattern = PathRoot
    /\ request.method = "GET"
    /\ request.path # PathRoot
    /\ Contains(Split(Tail(request.path), "/")[1], ".")
    /\ pcHTTP' = IF Contains(request.path, "@") THEN "parseRequest"
                 ELSE "serveModules"
    /\ UNCHANGED <<request, muxPattern, response, failure>>
    /\ HTTPFrame

\* home.go:64-72: parseRequest refuses the path, or the request goes to
\* serveBuild or serveResult.
parseRequest_NotOk ==
    /\ pcHTTP = "parseRequest"
    /\ Answer(Response(StatusNotFound, "", <<>>, "error"))
    /\ UNCHANGED failure

parseRequest_Ok ==
    /\ pcHTTP = "parseRequest"
    /\ pcHTTP' = "page"
    /\ UNCHANGED <<request, muxPattern, response, failure>>
    /\ HTTPFrame

\* serveModules, and serveBuild and serveResult ("page"): the page is
\* served, the request is redirected, an error of one of the three kinds is
\* rendered by failf, or, for a result, a stored log is served by serveLog.
PageErrors ==
    {Errorf(errBadGoversion, "bad goversion"),
     Errorf(errServer, "server"),
     Errorf(errRemote, "remote")}

page_Served ==
    /\ pcHTTP \in {"serveModules", "page"}
    /\ \/ Answer(Response(StatusOK, "", <<>>, "page"))
       \/ Answer(Response(StatusTemporaryRedirect, "", request.path, ""))
    /\ UNCHANGED failure

page_Failf ==
    /\ pcHTTP \in {"serveModules", "page"}
    /\ \E err \in PageErrors : Failf(err)

page_ServeLog ==
    /\ pcHTTP = "page"
    /\ pcHTTP' = "serveLog"
    /\ UNCHANGED <<request, muxPattern, response, failure>>
    /\ HTTPFrame

\* serve.go:384-388: log.gz cannot be opened.
serveLog_OpenFails ==
    /\ pcHTTP = "serveLog"
    /\ Failf(Errorf(errServer, "open log.gz"))

\* serve.go:390-391: the file is open; serveGzipFile is called.
serveLog_Opened ==
    /\ pcHTTP = "serveLog"
    /\ pcHTTP' = "serveGzipFile"
    /\ UNCHANGED <<request, muxPattern, response, failure>>
    /\ HTTPFrame

\* serve.go:394-403 with gzipAccepted what acceptsGzip gave: the stored bytes
\* are sent as they are, with the header, or decompressed; a panic in
\* acceptsGzip ends the handler, and net/http closes the connection with
\* nothing written.
GzipFileWith(gzipAccepted) ==
    /\ pcHTTP = "serveGzipFile"
    /\ CASE gzipAccepted = "yes" ->
                /\ Answer(Response(StatusOK, "gzip", <<>>, "stored bytes"))
                /\ UNCHANGED failure
         [] gzipAccepted = "no" ->
                \/ /\ Answer(Response(StatusOK, "", <<>>,
                                      "decompressed bytes"))
                   /\ UNCHANGED failure
                \/ Failf(Errorf(errServer, "decompressing"))
         [] OTHER ->
                /\ Answer(Response(0, "", <<>>, "panic"))
                /\ UNCHANGED failure

serveGzipFile == GzipFileWith(acceptsGzip(request.acceptEncoding))

\* The response is complete; the next request can arrive.
Done ==
    /\ pcHTTP = "answered"
    /\ pcHTTP' = "idle"
    /\ request' = NoRequest
    /\ muxPattern' = <<>>
    /\ response' = NoResponse
    /\ failure' = Nil
    /\ HTTPFrame

(***************************************************************************)
(* The context of a request: resolveModuleLatest (part_001:19-55), which   *)
(* is given the context, ensureSDK, which is not, and the cancellation of  *)
(* the context by the client.                                              *)
(***************************************************************************)
ErrProxyRequest == Errorf(errServer, "http request to goproxy")
ErrProxyResponse == Errorf(errRemote, "error response from goproxy")
ErrProxyJSON == Errorf(errRemote, "parsing json returned by goproxy")

InitCtx ==
    /\ cancelled = [p \in Procs |-> FALSE]
    /\ cancelledAt = [p \in Procs |-> "none"]
    /\ pcResolve = [p \in Procs |-> "idle"]
    /\ retResolve = [p \in Procs |-> Nil]

\* What a step of resolveModuleLatest, and a cancellation, leave alone.
CtxFrame == UNCHANGED <<sdkVars, callVars, histVars>>

\* Where the request of p is blocked: in the request to the module proxy,
\* behind another goroutine that holds sdk.fetch, in the listing of the
\* releases or in the fetch of the archive; "running" anywhere else in a
\* call, "none" outside of any call.
BlockedAt(p) ==
    IF pcResolve[p] = "request" THEN "goproxy"
    ELSE IF pc[p] = "lockFetch" /\ fetchMu # 0 THEN "fetchMutex"
    ELSE IF pc[p] = "listing" THEN "listing"
    ELSE IF pc[p] = "fetching" THEN "fetch"
    ELSE IF pc[p] \in {"idle", "done"} THEN "none"
    ELSE "running"

\* The client of the request that p serves goes away while p is in a call:
\* the context of the request is cancelled.
ctx_Cancel(p) ==
    /\ ~cancelled[p]
    /\ BlockedAt(p) # "none"
    /\ cancelled' = [cancelled EXCEPT ![p] = TRUE]
    /\ cancelledAt' = [cancelledAt EXCEPT ![p] = BlockedAt(p)]
    /\ UNCHANGED <<pcResolve, retResolve>>
    /\ CtxFrame

\* part_001:19-34: the call begins, and the request is made with the
\* context (http.NewRequestWithContext, http.DefaultClient.Do).
resolveModuleLatest_Do(p) ==
    /\ pcResolve[p] = "idle"
    /\ pc[p] = "idle"
    /\ pcResolve' = [pcResolve EXCEPT ![p] = "request"]
    /\ UNCHANGED <<cancelled, cancelledAt, retResolve>>
    /\ CtxFrame

\* part_001:35-54: the proxy has answered a request whose context is not
\* cancelled, or the request has failed.
resolveModuleLatest_Response(p) ==
    /\ pcResolve[p] = "request"
    /\ ~cancelled[p]
    /\ \E err \in {Nil, ErrProxyRequest, ErrProxyResponse, ErrProxyJSON} :
           retResolve' = [retResolve EXCEPT ![p] = err]
    /\ pcResolve' = [pcResolve EXCEPT ![p] = "done"]
    /\ UNCHANGED <<cancelled, cancelledAt>>
    /\ CtxFrame

\* part_001:35-38 and 50-52: the context is cancelled; Do returns its
\* error, or the reading of the body does.
resolveModuleLatest_Cancelled(p) ==
    /\ pcResolve[p] = "request"
    /\ cancelled[p]
    /\ \E err \in {ErrProxyRequest, ErrProxyJSON} :
           retResolve' = [retResolve EXCEPT ![p] = err]
    /\ pcResolve' = [pcResolve EXCEPT ![p] = "done"]
    /\ UNCHANGED <<cancelled, cancelledAt>>
    /\ CtxFrame

(***************************************************************************)
(* The targets (var targets, part_000:32-127): the list of the os/arch     *)
(* pairs, their use counts, and increase, which counts an observation and  *)
(* re-sorts the list.                                                      *)
(***************************************************************************)
\* The list the process starts with (lines 42-86), cut to three targets.
InitialTargets == <<"aix/ppc64", "linux/amd64", "windows/386">>

\* Line 123: the first observations that each re-sort, and the distance of
\* the later ones that do.
SortEvery == 32

InitTargets ==
    /\ targetList = InitialTargets
    /\ use = [t \in {InitialTargets[i] : i \in 1..Len(InitialTargets)} |-> 0]
    /\ totalUse = 0
    /\ lastSort = 0

\* The count of a key of the map t.use, 0 for a key that is missing.
UseOf(counts, t) == IF t \in DOMAIN counts THEN counts[t] ELSE 0

\* sort.Slice on a slice of fewer than twelve elements is an insertion
\* sort: each element moves left while less(it, the one before it), with
\* less(a, b) == t.use[a] > t.use[b] (line 114).
RECURSIVE InsertLeft(_, _, _)
InsertLeft(sorted, t, counts) ==
    IF sorted # <<>> /\ UseOf(counts, t) > UseOf(counts, sorted[Len(sorted)])
    THEN Append(InsertLeft(SubSeq(sorted, 1, Len(sorted) - 1), t, counts),
                sorted[Len(sorted)])
    ELSE Append(sorted, t)

RECURSIVE SortFrom(_, _, _)
SortFrom(sorted, rest, counts) ==
    IF rest = <<>> THEN sorted
    ELSE SortFrom(InsertLeft(sorted, Head(rest), counts), Tail(rest), counts)

\* Lines 110-117: the sorted copy of the list.
sort(l, counts) == SortFrom(<<>>, l, counts)

\* Lines 119-127 with resort whether the list is sorted after the counting:
\* under the lock, the count of target and the total go up by one.
IncreaseWith(target, resort) ==
    /\ use' = IF target \in DOMAIN use
              THEN [use EXCEPT ![target] = @ + 1]
              ELSE use @@ (target :> 1)
    /\ totalUse' = totalUse + 1
    /\ targetList' = IF resort THEN sort(targetList, use') ELSE targetList
    /\ lastSort' = IF resort THEN totalUse' ELSE lastSort
    /\ UNCHANGED <<sdkVars, callVars, histVars, diskVars, faultVars, serveVars>>

\* A variant that sorts on every 32nd observation only.
increaseSortsOnMultiples(target) ==
    IncreaseWith(target, (totalUse + 1) % SortEvery = 0)

increase(target) ==
    IncreaseWith(target, totalUse + 1 <= SortEvery
                             \/ (totalUse + 1) % SortEvery = 0)

\* Lines 102-107: under the lock, whether target is a key of t.use.
valid(target) == target \in DOMAIN use

\* The os/arch pairs of the initial list.
InitialPairs == {InitialTargets[i] : i \in 1..Len(InitialTargets)}

\* Strings that are no pair of the list: a pair of a platform the list does
\* not have, a string that is no pair, and the empty string.
OtherStrings == {"plan9/sparc", "linux", ""}

vars == <<sdkVars, callVars, histVars, diskVars, faultVars, serveVars,
          logVars, supportVars, httpVars, ctxVars, targetVars>>

\* No append is made and no signal arrives.
LogIdle == UNCHANGED logVars

\* Nothing calls installedSDK and no time passes.
SupportIdle == UNCHANGED supportVars

\* No request is handled.
HTTPIdle == UNCHANGED httpVars

\* No context is cancelled and resolveModuleLatest is not called, and no
\* target is observed.
CtxIdle == UNCHANGED ctxVars /\ UNCHANGED targetVars

\* Only ensureSDK is in use.
ServeIdle ==
    /\ UNCHANGED <<diskVars, faultVars, serveVars>>
    /\ LogIdle
    /\ SupportIdle
    /\ HTTPIdle
    /\ CtxIdle

\* Only serve is running.
StartupFrame == LogIdle /\ SupportIdle /\ HTTPIdle /\ CtxIdle

\* Only the log is in use.
LogFrame == SupportIdle /\ HTTPIdle /\ CtxIdle

Next ==
    \/ \E p \in Procs, v \in SDKVersions : ensureSDK_Validate(p, v) /\ ServeIdle
    \/ \E p \in Procs : ensureSDK_LockSdk(p) /\ ServeIdle
    \/ \E p \in Procs : ensureSDK_CheckInstalled(p) /\ ServeIdle
    \/ \E p \in Procs : ensureSDK_CheckStatus(p) /\ ServeIdle
    \/ \E p \in Procs : ensureSDK_ListAllDone(p) /\ ServeIdle
    \/ \E p \in Procs : ensureSDK_FetchDone(p) /\ ServeIdle
    \/ \E p \in Procs : ensureSDK_LockSdkInstall(p) /\ ServeIdle
    \/ \E p \in Procs : ensureSDK_Install(p) /\ ServeIdle
    \/ \E v \in SDKVersions, kind \in {"nofile", "archive"} :
           Publish(v, kind) /\ ServeIdle

Init ==
    /\ InitSDK /\ InitCalls /\ InitHist
    /\ InitServed
    /\ InitLog
    /\ InitSupport
    /\ InitCtx
    /\ InitTargets
    /\ InitHTTP

Spec == Init /\ [][Next]_vars

(***************************************************************************)
(* The validation alone: one goroutine calls ensureSDK once with an        *)
(* identifier of a bounded set.                                            *)
(***************************************************************************)
SuffixAlphabet == {"1", "3", ".", "r", "+"}

Go1 == <<"g", "o", "1">>
Go10 == <<"g", "o", "1", "0">>
Go1_10 == <<"g", "o", "1", ".", "1", "0">>
Go1_13rc1 == <<"g", "o", "1", ".", "1", "3", "r", "c", "1">>
Go1_21_0 == <<"g", "o", "1", ".", "2", "1", ".", "0">>
Go1_21rc1 == <<"g", "o", "1", ".", "2", "1", "r", "c", "1">>
Bare1_21 == <<"1", ".", "2", "1">>

NamedIdentifiers ==
    {Go1, Go10, Go1_10, Go1_12, Go1_13, Go1_13rc1, Go1_21_0, Go1_21rc1, Go2_0,
     Bare1_21, TmpInstall}

Identifiers ==
    NamedIdentifiers
        \cup SeqsUpTo(SuffixAlphabet, 2)
        \cup {GoPrefix \o s : s \in SeqsUpTo(SuffixAlphabet, MaxSuffixLen)}

InitValidate ==
    /\ InitSDK /\ InitCalls /\ InitHist
    /\ InitServed
    /\ InitLog
    /\ InitSupport
    /\ InitCtx
    /\ InitTargets
    /\ InitHTTP

NextValidate ==
    /\ pc[1] = "idle"
    /\ \E v \in Identifiers : ensureSDK_Validate(1, v)
    /\ ServeIdle

SpecValidate == InitValidate /\ [][NextValidate]_vars

(***************************************************************************)
(* The startup: the files as an earlier run and faults left them, then     *)
(* serve.                                                                  *)
(***************************************************************************)
InitStartup ==
    /\ InitSDKBefore /\ InitCalls /\ InitHist
    /\ InitDisk
    /\ InitServe
    /\ InitLog
    /\ InitSupport
    /\ InitCtx
    /\ InitTargets
    /\ InitHTTP

NextStartup ==
    \/ TruncateHashes /\ StartupFrame
    \/ ExtendHashes /\ StartupFrame
    \/ CorruptHash /\ StartupFrame
    \/ CorruptRecord /\ StartupFrame
    \/ TruncateRecords /\ StartupFrame
    \/ DamageRecordNumber /\ StartupFrame
    \/ DamageBinary /\ StartupFrame
    \/ serve_VerifySumState /\ StartupFrame
    \/ serve_InitSDK /\ StartupFrame
    \/ serve_GoCoordinateBuilds /\ StartupFrame
    \/ serve_GoSignal /\ StartupFrame
    \/ serve_Handlers /\ StartupFrame
    \/ serve_ListenHTTP /\ StartupFrame
    \/ serve_ListenHTTPS /\ StartupFrame
    \/ serve_ListenAdmin /\ StartupFrame
    \/ \E l \in Listeners : Accept(l) /\ StartupFrame
    \/ \E l \in Listeners : ListenerFails(l) /\ StartupFrame

SpecStartup == InitStartup /\ [][NextStartup]_vars

(***************************************************************************)
(* The log in use: appends, a signal, the end of the process and the next *)
(* run.                                                                    *)
(***************************************************************************)
\* serve is up over a log of complete appends.
InitLogServed ==
    /\ InitSDK /\ InitCalls /\ InitHist
    /\ InitDisk
    /\ pcServe = "running"
    /\ verifyResult = Ok(Len(records))
    /\ started = {"coordinator", "signal", "http"}
    /\ accepted = {}
    /\ InitLog
    /\ InitSupport
    /\ InitCtx
    /\ InitTargets
    /\ InitHTTP

NextLog ==
    \/ \E p \in Procs : addSum_Lock(p) /\ LogFrame
    \/ \E p \in Procs : addSum_WriteRecord(p) /\ LogFrame
    \/ \E p \in Procs : addSum_WriteHashes(p) /\ LogFrame
    \/ \E p \in Procs : addSum_WriteRecordNumber(p) /\ LogFrame
    \/ \E p \in Procs : addSum_Unlock(p) /\ LogFrame
    \/ Signal /\ LogFrame
    \/ signal_Receive /\ LogFrame
    \/ signal_Lock /\ LogFrame
    \/ signal_Fatal /\ LogFrame
    \/ Kill /\ LogFrame
    \/ Restart /\ LogFrame
    \/ serve_VerifySumState /\ LogIdle /\ LogFrame

SpecLog == InitLogServed /\ [][NextLog]_vars

(***************************************************************************)
(* The toolchain manager in use: installedSDK, ensureMostRecentSDK and     *)
(* ensureSDK called concurrently while time passes.                        *)
(***************************************************************************)
\* Nothing but the toolchain manager is in use.
SupportOnly ==
    /\ UNCHANGED <<diskVars, faultVars, serveVars>>
    /\ LogIdle /\ HTTPIdle /\ CtxIdle

\* A step of ensureSDK.
EnsureStep(step) == step /\ SupportIdle /\ SupportOnly

InitSupported ==
    /\ InitSDK /\ InitCalls /\ InitHist
    /\ InitServed
    /\ InitLog
    /\ InitSupport
    /\ InitCtx
    /\ InitTargets
    /\ InitHTTP

\* installedSDK called concurrently while time passes.
NextRefresh ==
    \/ Tick /\ SupportOnly
    \/ \E p \in Procs : installedSDK_Now(p, "installedSDK") /\ SupportOnly
    \/ \E p \in Procs : installedSDK_Lock(p) /\ SupportOnly
    \/ \E p \in Procs : installedSDK_ListSupported(p) /\ SupportOnly
    \/ \E p \in Procs : installedSDK_Relock(p) /\ SupportOnly
    \/ \E p \in Procs : installedSDK_Return(p) /\ SupportOnly

SpecRefresh == InitSupported /\ [][NextRefresh]_vars

\* The toolchain manager more than an hour after its last refresh, which
\* left list in sdk.supportedList (the empty list: no refresh has succeeded).
InitSDKRefreshed(list) ==
    /\ sdkDir = DiskNames
    /\ installed = initSDK(sdkDir)
    /\ supportedList = list
    /\ installedList = sdkUpdateInstalledList(installed, list)
    /\ status = [v \in SDKVersions |-> Absent]
    /\ sdkMu = 0
    /\ fetchMu = 0
    /\ tmpDirs = {}
    /\ catalog = [v \in SDKVersions |->
                      IF v \in PastReleases THEN "archive" ELSE "absent"]

InitMostRecent ==
    /\ \E list \in {<<>>, <<Go2_0, Go1_13>>} : InitSDKRefreshed(list)
    /\ InitCalls /\ InitHist
    /\ InitServed
    /\ InitLog
    /\ InitSupport
    /\ InitCtx
    /\ InitTargets
    /\ InitHTTP

\* ensureMostRecentSDK called concurrently, while a release is published.
NextMostRecent ==
    \/ \E p \in Procs : installedSDK_Now(p, "ensureMostRecentSDK") /\ SupportOnly
    \/ \E p \in Procs : installedSDK_Lock(p) /\ SupportOnly
    \/ \E p \in Procs : installedSDK_ListSupported(p) /\ SupportOnly
    \/ \E p \in Procs : installedSDK_Relock(p) /\ SupportOnly
    \/ \E p \in Procs : ensureMostRecentSDK_Empty(p) /\ SupportOnly
    \/ \E p \in Procs : ensureMostRecentSDK_Ensure(p) /\ SupportOnly
    \/ \E p \in Procs : ensureMostRecentSDK_Return(p) /\ SupportOnly
    \/ \E p \in Procs : EnsureStep(ensureSDK_LockSdk(p))
    \/ \E p \in Procs : EnsureStep(ensureSDK_CheckInstalled(p))
    \/ \E p \in Procs : EnsureStep(ensureSDK_CheckStatus(p))
    \/ \E p \in Procs : EnsureStep(ensureSDK_ListAllDone(p))
    \/ \E p \in Procs : EnsureStep(ensureSDK_FetchDone(p))
    \/ \E p \in Procs : EnsureStep(ensureSDK_LockSdkInstall(p))
    \/ \E p \in Procs : EnsureStep(ensureSDK_Install(p))
    \/ EnsureStep(Publish(Go2_0, "archive"))

SpecMostRecent == InitMostRecent /\ [][NextMostRecent]_vars

(***************************************************************************)
(* The three entry points of the toolchain manager called concurrently:    *)
(* ensureSDK, installedSDK and ensureMostRecentSDK, and the two mutexes    *)
(* they take.                                                              *)
(***************************************************************************)
\* The goroutine is inside a call of one of the three.
InCall(p) == pcInst[p] # "idle" \/ pc[p] \notin {"idle", "done"}

\* The goroutine is in a remote operation: goreleases.ListSupported (line
\* 203), goreleases.ListAll (line 258) or goreleases.Fetch (line 281).
InRemote(p) == pcInst[p] = "request" \/ pc[p] \in {"listing", "fetching"}

\* The versions asked of ensureSDK directly: one that is installed and one
\* that is not.
AskedVersions == {Go1_13, Go2_0}

\* The process has started, no refresh has been made, and the release that
\* is not installed is in the catalog.
InitManager ==
    /\ sdkDir = DiskNames
    /\ installed = initSDK(sdkDir)
    /\ supportedList = <<>>
    /\ installedList = sdkUpdateInstalledList(installed, supportedList)
    /\ status = [v \in SDKVersions |-> Absent]
    /\ sdkMu = 0
    /\ fetchMu = 0
    /\ tmpDirs = {}
    /\ catalog = [v \in SDKVersions |-> "archive"]
    /\ InitCalls /\ InitHist
    /\ InitServed
    /\ InitLog
    /\ InitSupport
    /\ InitCtx
    /\ InitTargets
    /\ InitHTTP

\* A goroutine that is in no call calls ensureSDK; when ensureSDK has
\* returned, the caller returns like ensureMostRecentSDK does.
Manager_ensureSDK(p, v) ==
    /\ pcInst[p] = "idle"
    /\ pc[p] = "idle"
    /\ ensureSDK_Validate(p, v)
    /\ pcInst' = [pcInst EXCEPT ![p] = "ensuring"]
    /\ caller' = [caller EXCEPT ![p] = "ensureSDK"]
    /\ UNCHANGED <<clock, lastSupported, now, resp, retSupported,
                   retRemaining, requests, lastGood>>
    /\ SupportOnly

\* The steps of a goroutine that wait for nothing.
Manager_Local(p) ==
    \/ installedSDK_Return(p) /\ SupportOnly
    \/ ensureMostRecentSDK_Empty(p) /\ SupportOnly
    \/ ensureMostRecentSDK_Ensure(p) /\ SupportOnly
    \/ ensureMostRecentSDK_Return(p) /\ SupportOnly
    \/ EnsureStep(ensureSDK_CheckInstalled(p))
    \/ EnsureStep(ensureSDK_Install(p))

\* The steps that begin with sdk.Lock() or sdk.fetch.Lock().
Manager_Lock(p) ==
    \/ installedSDK_Lock(p) /\ SupportOnly
    \/ installedSDK_Relock(p) /\ SupportOnly
    \/ EnsureStep(ensureSDK_LockSdk(p))
    \/ EnsureStep(ensureSDK_CheckStatus(p))
    \/ EnsureStep(ensureSDK_LockSdkInstall(p))

\* The return of goreleases.ListSupported.
Manager_Listed(p) == installedSDK_ListSupported(p) /\ SupportOnly

\* The return of goreleases.ListAll and of goreleases.Fetch.
Manager_Fetched(p) ==
    \/ EnsureStep(ensureSDK_ListAllDone(p))
    \/ EnsureStep(ensureSDK_FetchDone(p))

NextManager ==
    \/ \E p \in Procs, who \in {"installedSDK", "ensureMostRecentSDK"} :
           installedSDK_Now(p, who) /\ SupportOnly
    \/ \E p \in Procs, v \in AskedVersions : Manager_ensureSDK(p, v)
    \/ \E p \in Procs : Manager_Local(p)
    \/ \E p \in Procs : Manager_Lock(p)
    \/ \E p \in Procs : Manager_Listed(p)
    \/ \E p \in Procs : Manager_Fetched(p)

SpecManager == InitManager /\ [][NextManager]_vars

\* A step of a goroutine other than the return of a listing of the releases
\* or of a fetch.
Manager_Step(p) == Manager_Local(p) \/ Manager_Lock(p) \/ Manager_Listed(p)

\* The scheduler runs every goroutine that can take a step, and
\* goreleases.ListSupported returns; a sync.Mutex hands the lock to a
\* goroutine that has waited (its starvation mode), so a goroutine at Lock()
\* gets the mutex if it is free again and again.  A goroutine is at one place
\* at a time, so strong fairness of its steps taken together asks this and
\* no more.  A listing of the releases and the fetch of an archive may take
\* for ever.
SpecLongFetch ==
    /\ SpecManager
    /\ \A p \in Procs : SF_vars(Manager_Step(p))

\* Every remote operation returns.
SpecManagerFair ==
    /\ SpecLongFetch
    /\ \A p \in Procs : WF_vars(Manager_Fetched(p))

(***************************************************************************)
(* The requests: serve is up, with or without a signer key, and answers    *)
(* one request after the other.                                            *)
(***************************************************************************)
InitHTTPServed ==
    /\ InitSDK /\ InitCalls /\ InitHist
    /\ InitServed
    /\ InitLog
    /\ InitSupport
    /\ InitCtx
    /\ InitTargets
    /\ InitRequest
    /\ signerKey \in BOOLEAN

\* Only requests are handled.
RequestFrame == LogIdle /\ SupportIdle /\ CtxIdle

NextHTTP ==
    \/ /\ pcHTTP = "idle"
       /\ \E method \in Methods, path \in RequestPaths,
             acceptEncoding \in AcceptEncodings(MaxCodings) :
              Receive(method, path, acceptEncoding) /\ RequestFrame
    \/ mux_Dispatch /\ RequestFrame
    \/ serve_Static /\ RequestFrame
    \/ serve_OldPrefix /\ RequestFrame
    \/ serve_Tlog /\ RequestFrame
    \/ serveHome_MethodNotAllowed /\ RequestFrame
    \/ serveHome_Root /\ RequestFrame
    \/ serveHome_NotFound /\ RequestFrame
    \/ serveHome_Page /\ RequestFrame
    \/ parseRequest_NotOk /\ RequestFrame
    \/ parseRequest_Ok /\ RequestFrame
    \/ page_Served /\ RequestFrame
    \/ page_Failf /\ RequestFrame
    \/ page_ServeLog /\ RequestFrame
    \/ serveLog_OpenFails /\ RequestFrame
    \/ serveLog_Opened /\ RequestFrame
    \/ serveGzipFile /\ RequestFrame
    \/ Done /\ RequestFrame

SpecHTTP == InitHTTPServed /\ [][NextHTTP]_vars

(***************************************************************************)
(* The cancellation: each goroutine serves one request, in which it calls  *)
(* resolveModuleLatest and ensureSDK, and the client may go away.          *)
(***************************************************************************)
InitCancel ==
    /\ InitSDK /\ InitCalls /\ InitHist
    /\ InitServed
    /\ InitLog
    /\ InitSupport
    /\ InitCtx
    /\ InitTargets
    /\ InitHTTP

\* Only the calls of the requests run.
CancelFrame ==
    /\ UNCHANGED <<diskVars, faultVars, serveVars>>
    /\ LogIdle /\ SupportIdle /\ HTTPIdle
    /\ UNCHANGED targetVars

\* A step of ensureSDK, which has no part in the context.
CtxStep(step) == step /\ CtxIdle /\ CancelFrame

NextCancel ==
    \/ \E p \in Procs : ctx_Cancel(p) /\ CancelFrame
    \/ \E p \in Procs : resolveModuleLatest_Do(p) /\ CancelFrame
    \/ \E p \in Procs : resolveModuleLatest_Response(p) /\ CancelFrame
    \/ \E p \in Procs : resolveModuleLatest_Cancelled(p) /\ CancelFrame
    \/ \E p \in Procs, v \in {Go1_13, Go2_0} :
           /\ pc[p] = "idle"
           /\ pcResolve[p] # "request"
           /\ CtxStep(ensureSDK_Validate(p, v))
    \/ \E p \in Procs : CtxStep(ensureSDK_LockSdk(p))
    \/ \E p \in Procs : CtxStep(ensureSDK_CheckInstalled(p))
    \/ \E p \in Procs : CtxStep(ensureSDK_CheckStatus(p))
    \/ \E p \in Procs : CtxStep(ensureSDK_ListAllDone(p))
    \/ \E p \in Procs : CtxStep(ensureSDK_FetchDone(p))
    \/ \E p \in Procs : CtxStep(ensureSDK_LockSdkInstall(p))
    \/ \E p \in Procs : CtxStep(ensureSDK_Install(p))
    \/ CtxStep(Publish(Go2_0, "archive"))

SpecCancel == InitCancel /\ [][NextCancel]_vars

(***************************************************************************)
(* The targets: builds are observed, one after the other.                  *)
(***************************************************************************)
InitObserved ==
    /\ InitSDK /\ InitCalls /\ InitHist
    /\ InitServed
    /\ InitLog
    /\ InitSupport
    /\ InitCtx
    /\ InitTargets
    /\ InitHTTP

\* Only the targets change.
TargetFrame == LogIdle /\ SupportIdle /\ HTTPIdle /\ UNCHANGED ctxVars

NextTargets ==
    /\ totalUse < MaxTotalUse
    /\ \E i \in 1..Len(InitialTargets) :
           increase(InitialTargets[i]) /\ TargetFrame

SpecTargets == InitObserved /\ [][NextTargets]_vars

\* increase called with any string, a few times.
NextAnyTarget ==
    /\ totalUse < MaxAnyUse
    /\ \E x \in InitialPairs \cup OtherStrings : increase(x) /\ TargetFrame

SpecAnyTarget == InitObserved /\ [][NextAnyTarget]_vars

(***************************************************************************)
(* Properties of ensureSDK.                                                *)
(***************************************************************************)
Returned(p) == pc[p] = "done"

\* C1: for every version, the archive fetch is started at most once in the
\* life of the process, and once a fetch for v has been started and the
\* fetching call no longer holds the fetch mutex, status has an entry for v.
C1_FetchAtMostOnce ==
    \A v \in DOMAIN fetchCount :
        /\ fetchCount[v] <= 1
        /\ (fetchCount[v] >= 1 /\ ~(\E p \in Procs : fetchMu = p /\ goversion[p] = v))
               => status[v] # Absent

\* Two calls for the same version ran at the same time (neither had seen the
\* other return when it began); one fetched, the other took the fetch mutex
\* after it, found the entry and returned the same result without fetching.
C1_Witness ==
    \E p, q \in Procs :
        /\ p # q
        /\ Returned(p) /\ Returned(q)
        /\ goversion[p] = Go2_0 /\ goversion[q] = Go2_0
        /\ seen[p] = {} /\ seen[q] = {}
        /\ fetched[p] /\ ~fetched[q] /\ ~contacted[q]
        /\ ret[q] = ret[p]
        /\ fetchCount[Go2_0] = 1

\* C2: a call that began after a call for the same version had returned an
\* error other than "no such version" returns that error, and neither
\* requests the catalog nor fetches.
C2_FailureRemembered ==
    \A p \in Procs :
        Returned(p)
            => \A err \in seen[p] \ {Nil, ErrNoSuchVersion} :
                   /\ ret[p] = err
                   /\ ~contacted[p]
                   /\ ~fetched[p]

\* A later call got a remembered failure of the fetch path from status.
C2_Witness ==
    \E p \in Procs :
        /\ Returned(p)
        /\ ret[p] \in {ErrFindFile, ErrTempDir, ErrInstalling, ErrRename}
        /\ ret[p] \in seen[p]
        /\ locked[p]

\* C3: the step in which a call returns "no such version" is taken by a call
\* whose version passed validation, is not installed and is absent from the
\* catalog; it has requested the catalog, and the step changes neither
\* sdk.fetch.status nor sdk.installed, so the version has no entry afterwards.
C3_NoSuchVersionNotCached ==
    [][\A p \in Procs :
          (pc[p] = "listing" /\ pc'[p] = "done" /\ ret'[p] = ErrNoSuchVersion)
              => /\ validateGoversion(goversion[p]) = Nil
                 /\ catalog[goversion[p]] = "absent"
                 /\ contacted[p]
                 /\ goversion[p] \notin installed'
                 /\ status'[goversion[p]] = Absent
                 /\ status' = status
                 /\ installed' = installed]_vars

\* A call that began after "no such version" had been returned for its
\* version requested the catalog again, fetched and succeeded.
C3_Witness ==
    \E p \in Procs :
        /\ Returned(p)
        /\ ErrNoSuchVersion \in seen[p]
        /\ contacted[p] /\ fetched[p]
        /\ ret[p] = Nil
        /\ goversion[p] \in installed

\* C4 as claimed: a call that began after a call for the same version had
\* failed to list the catalog requests the catalog again.
C4_ListingErrorNotCached ==
    \A p \in Procs :
        (Returned(p) /\ ErrListing \in seen[p]) => contacted[p]

\* C4 as the code has it: a call that began after a call for the same
\* version had failed to list the catalog returns that error from
\* sdk.fetch.status, where it stays, without requesting the catalog.
C4_ListingErrorCached ==
    \A p \in Procs :
        (Returned(p) /\ ErrListing \in seen[p])
            => /\ ret[p] = ErrListing
               /\ ~contacted[p]
               /\ status[goversion[p]] = ErrListing

\* A later call returned the remembered listing error.
C4_Witness ==
    \E p \in Procs :
        /\ Returned(p)
        /\ ErrListing \in seen[p]
        /\ ret[p] = ErrListing
        /\ locked[p]

\* C7: once a call for v has returned nil, v stays in sdk.installed, and a
\* call for v that began after that returns nil without requesting the
\* catalog and without fetching.
C7_IdempotentOnSuccess ==
    /\ \A h \in hist : h.err = Nil => h.v \in installed
    /\ \A p \in Procs :
           (Returned(p) /\ Nil \in seen[p])
               => /\ ret[p] = Nil
                  /\ ~contacted[p]
                  /\ ~fetched[p]

\* A later call for a version that was fetched and installed by this process
\* returned nil, while another version had also returned nil.
C7_Witness ==
    \E p \in Procs :
        /\ Returned(p)
        /\ goversion[p] = Go2_0
        /\ Nil \in seen[p]
        /\ ret[p] = Nil
        /\ [v |-> Go1_13, err |-> Nil] \in hist

(***************************************************************************)
(* Properties of the validation.                                           *)
(***************************************************************************)
\* The legacy shape go1.x: "go1." followed by a digit.
LegacyShape(v) ==
    /\ HasPrefix(v, Go1DotPrefix)
    /\ Len(v) >= 5
    /\ IsDigit(v[5])

\* The number written by the digits that follow "go1.".
LeadingMinor(v) ==
    LET rest == SubSeq(v, 5, Len(v))
        n == CHOOSE k \in 0..Len(rest) :
                 /\ \A i \in 1..k : IsDigit(rest[i])
                 /\ (k < Len(rest) => ~IsDigit(rest[k + 1]))
    IN  DecimalValue(SubSeq(rest, 1, n))

ClaimedValid(v) ==
    /\ HasPrefix(v, GoPrefix)
    /\ (~LegacyShape(v) \/ LeadingMinor(v) >= MinMinor)

\* C5 as claimed: the validation lets an identifier pass exactly when it
\* begins with "go" and either has not the shape go1.x or has a leading
\* minor version of at least 13; every other identifier is rejected with a
\* bad-goversion error.
C5_ValidationAsClaimed ==
    \A p \in Procs :
        goversion[p] # <<>>
            => /\ (pc[p] # "done") <=> ClaimedValid(goversion[p])
               /\ pc[p] = "done" => ErrorsIs(ret[p], errBadGoversion)

\* C6: a call with an identifier that fails the validation has returned a
\* bad-goversion error, which failf renders with status 400, without taking
\* a mutex, requesting the catalog or fetching, and sdk.installed and
\* sdk.fetch.status are as initSDK left them.
C6_InvalidRejectedFirst ==
    \A p \in Procs :
        (goversion[p] # <<>> /\ validateGoversion(goversion[p]) # Nil)
            => /\ Returned(p)
               /\ ErrorsIs(ret[p], errBadGoversion)
               /\ failf(ret[p]) = StatusBadRequest
               /\ ~locked[p] /\ ~contacted[p] /\ ~fetched[p]
               /\ installed = initSDK(sdkDir)
               /\ \A v \in DOMAIN status : status[v] = Absent

\* The rejected identifier names a directory of the installed set.
C6_Witness ==
    \E p \in Procs :
        /\ Returned(p)
        /\ goversion[p] \in installed
        /\ validateGoversion(goversion[p]) # Nil
        /\ failf(ret[p]) = StatusBadRequest

(***************************************************************************)
(* Properties of the startup.                                              *)
(***************************************************************************)
Verified == verifyResult # NotVerified

\* C8: the build coordinator and the listeners are started, and a request
\* is accepted, only after verifySumState has returned without error; when
\* it has returned an error the process has exited and has started nothing.
C8_NothingStartsBeforeVerification ==
    /\ (started # {} \/ accepted # {}) => (Verified /\ verifyResult.err = "nil")
    /\ accepted \subseteq started
    /\ (Verified /\ verifyResult.err # "nil")
           => (Exited /\ started = {} /\ accepted = {})

\* A request was accepted after the verification of a log with records, and
\* the coordinator runs.
C8_Witness ==
    /\ verifyResult.err = "nil"
    /\ verifyResult.count > 0
    /\ "coordinator" \in started
    /\ accepted # {}

\* The conditions of the claim, each on the files alone.
SizeConsistent == HashesFileSize = HashSize * StoredHashCount(treeSize)

LastLine == records[treeSize]

\* The hashes recomputed for the last record are the tail of sum/hashes.
LastHashesMatch ==
    LET computed == StoredHashes(treeSize - 1, LineBytes(LastLine), hashes)
    IN  /\ hashesExtra = 0
        /\ Len(hashes) >= Len(computed)
        /\ SubSeq(hashes, Len(hashes) - Len(computed) + 1, Len(hashes)) = computed

\* The recordnumber file of the last record parses to treeSize - 1.
LastRecordNumberMatches ==
    /\ LastLine.wellformed
    /\ recordNumber[LastLine.Sum].exists
    /\ ParseInt(recordNumber[LastLine.Sum].data).ok
    /\ ParseInt(recordNumber[LastLine.Sum].data).num = treeSize - 1

\* The binary.gz of the last record decompresses to contents whose sum is
\* the sum of the record.
LastBinaryMatches ==
    /\ LastLine.wellformed
    /\ binaryGz[LastLine.Sum].exists
    /\ binaryGz[LastLine.Sum].gzip
    /\ BinarySum(binaryGz[LastLine.Sum].contents) = LastLine.Sum

\* C9: verifySumState returns without error, and then the number of
\* records, exactly when the size of sum/hashes is 32 * StoredHashCount of
\* the number of records and, if there are records, the three checks of the
\* last record pass; it fails on a sum/hashes cut by 32 bytes, and returns 0
\* for no records and an empty sum/hashes.
C9_VerifyIffConsistent ==
    Verified =>
        /\ (verifyResult.err = "nil")
               <=> /\ SizeConsistent
                   /\ treeSize > 0 => /\ LastHashesMatch
                                      /\ LastRecordNumberMatches
                                      /\ LastBinaryMatches
        /\ verifyResult.err = "nil" => verifyResult.count = treeSize
        /\ (truncated /\ faults = 1) => verifyResult.err # "nil"
        /\ (treeSize = 0 /\ HashesFileSize = 0) => verifyResult = Ok(0)

\* The verification passed for a log whose last record completes a subtree,
\* so that its stored hashes are a leaf and a node.
C9_Witness ==
    /\ Verified
    /\ verifyResult.err = "nil"
    /\ treeSize = 2
    /\ faults = 1

\* C10: the step of verifySumState leaves the files as they are, whatever it
\* returns.
C10_VerifyOnlyReads ==
    [][(pcServe = "start" /\ pcServe' # "start") => UNCHANGED diskVars]_vars

\* The verification has failed on files that a fault had damaged.
C10_Witness ==
    /\ Verified
    /\ verifyResult.err # "nil"
    /\ faults = 1
    /\ Exited

(***************************************************************************)
(* Properties of the shutdown and of the appends.                          *)
(***************************************************************************)
\* C11: once the goroutine that waits for SIGINT or SIGTERM is past
\* addSumMutex.Lock(), and when the process has ended by its log.Fatal, that
\* goroutine holds addSumMutex and no append is between its Lock and its
\* Unlock: the exit on a signal cuts no append, and none begins before it.
C11_SignalExitHoldsMutex ==
    pcSignal \in {"fatal", "exited"}
        => /\ addSumMutex = SignalGoroutine
           /\ \A p \in Procs : pcAddSum[p] = "idle"

\* The process has ended on a signal that arrived while an append held the
\* mutex, and that append is complete on disk.
C11_Witness ==
    /\ pcSignal = "exited"
    /\ Exited
    /\ sigDuringAppend
    /\ interrupted = 0
    /\ Len(hashes) = StoredHashCount(Len(records))
    /\ \A p \in Procs : pcAddSum[p] = "idle"

\* C19: when the process ended with an append between its first and its
\* last write (the record line written, or the record line and the hashes,
\* but not recordnumber), verifySumState of the next run returns an error.
C19_PartialAppendRejected ==
    (interrupted \in {1, 2} /\ pcSignal = "gone" /\ verifyResult # NotVerified)
        => verifyResult.err # "nil"

\* The next run has refused a log whose last append had written the record
\* line and the hashes, for the recordnumber file that is missing.
C19_Witness ==
    /\ interrupted = 2
    /\ pcSignal = "gone"
    /\ Len(hashes) = StoredHashCount(Len(records))
    /\ verifyResult.err = "open recordnumber"
    /\ Exited

\* ---------------------------------------------------------------------
\* C12: for any interleaving of concurrent calls of installedSDK, at most
\* one request to the release catalog is started within any one-hour
\* window (two requests never start less than an hour apart), also when
\* requests fail, and a failed request leaves sdk.supportedList as the
\* last successful request left it.
C12_OneRequestPerHour ==
    /\ \A i, j \in 1..Len(requests) :
           i < j => requests[j].start - requests[i].start >= Hour
    /\ supportedList = lastGood

\* ---------------------------------------------------------------------
\* C17: whenever the sdk mutex is not held, sdk.installedList holds exactly
\* the installed versions that are not in sdk.supportedList, each once, and
\* the two lists a call of installedSDK returns have no version in common.
ListedVersions(list) == {list[i] : i \in 1..Len(list)}

NoRepeats(list) ==
    \A i, j \in 1..Len(list) : list[i] = list[j] => i = j

C17_InstalledListIsTheRest ==
    /\ sdkMu = 0 =>
           /\ ListedVersions(installedList)
                  = installed \ ListedVersions(supportedList)
           /\ NoRepeats(installedList)
    /\ \A p \in Procs :
           pcInst[p] \in {"returned", "ensuring"} =>
               ListedVersions(retSupported[p])
                   \cap ListedVersions(retRemaining[p]) = {}

\* An install of a version the catalog no longer lists as supported, after
\* a refresh that succeeded: the version is in sdk.installedList, and the
\* versions the refresh made supported are not.
C17_Witness ==
    /\ sdkMu = 0
    /\ Go2_0 \in installed
    /\ supportedList = <<Go1_13, Go1_12>>
    /\ installedList = <<Go2_0>>
    /\ lastGood = supportedList
    /\ requests # <<>>

\* ---------------------------------------------------------------------
\* C18: ensureMostRecentSDK returns a version without error only when the
\* version is the first of the supported list installedSDK returned and is
\* installed at the return; when that list is empty it returns a server
\* error, and the goroutine neither calls ensureSDK nor starts a fetch.
ReturnsVersion(p) ==
    /\ pcInst[p] = "ensuring"
    /\ pc[p] = "done"
    /\ ensureMostRecentSDK_Result(p).err = Nil

GotEmptyList(p) ==
    /\ pcInst[p] = "returned"
    /\ caller[p] = "ensureMostRecentSDK"
    /\ retSupported[p] = <<>>

C18_MostRecentIsFirstAndInstalled ==
    /\ [](\A p \in Procs :
              ReturnsVersion(p) =>
                  /\ retSupported[p] # <<>>
                  /\ ensureMostRecentSDK_Result(p).version = retSupported[p][1]
                  /\ ensureMostRecentSDK_Result(p).version \in installed)
    /\ [](\A p \in Procs :
              GotEmptyList(p) =>
                  /\ ErrorsIs(ensureMostRecentSDK_Result(p).err, errServer)
                  /\ pc[p] = "idle"
                  /\ ~contacted[p]
                  /\ ~fetched[p])
    /\ [][\A p \in Procs :
              GotEmptyList(p) =>
                  /\ pcInst'[p] \in {"returned", "idle"}
                  /\ pc'[p] = "idle"
                  /\ ~contacted'[p]
                  /\ ~fetched'[p]]_vars

\* One call is about to return the version it had installed, the first of
\* the list its own refresh fetched, while another, which read the list
\* when that first refresh was in flight, is about to return the error.
C18_Witness ==
    \E p, q \in Procs :
        /\ ReturnsVersion(p)
        /\ retSupported[p] = <<Go2_0, Go1_13>>
        /\ Go2_0 \in installed
        /\ fetched[p]
        /\ GotEmptyList(q)
        /\ Len(requests) = 1

\* ---------------------------------------------------------------------
\* C13: every request whose method is not GET is answered with status 405,
\* whatever its path.
C13_NonGetIs405 ==
    (pcHTTP = "answered" /\ request.method # "GET")
        => response.status = StatusMethodNotAllowed

\* ---------------------------------------------------------------------
\* C14: failf renders an error by its kind: a server error and a remote
\* error (one that wraps errRemote) with status 500, any other error (a
\* user error such as a bad goversion) with status 400.
C14_FailfStatusByKind ==
    (pcHTTP = "answered" /\ failure # Nil) =>
        response.status =
            IF ErrorsIs(failure, errServer) \/ ErrorsIs(failure, errRemote)
            THEN StatusInternalServerError
            ELSE StatusBadRequest

\* ---------------------------------------------------------------------
\* C15: serveGzipFile sends the stored gzip bytes with the header
\* Content-Encoding: gzip exactly when the Accept-Encoding value of the
\* request lists gzip and does not give it q=0; otherwise it sends the
\* decompressed bytes without the header.
ListsGzipAccepted(acceptEncoding) ==
    LET t == Split(acceptEncoding, ",")
    IN  \E i \in 1..Len(t) :
            LET tt == Split(TrimSpace(t[i]), ";")
            IN  /\ TrimSpace(tt[1]) = Gzip
                /\ \A k \in 2..Len(tt) : TrimSpace(tt[k]) # <<"q", "=", "0">>

\* serveGzipFile has sent the file, in one form or the other.
FileSent ==
    /\ pcHTTP = "answered"
    /\ response.body \in {"stored bytes", "decompressed bytes"}

C15_GzipExactlyWhenAccepted ==
    FileSent =>
        IF ListsGzipAccepted(request.acceptEncoding)
        THEN /\ response.contentEncoding = "gzip"
             /\ response.body = "stored bytes"
        ELSE /\ response.contentEncoding = ""
             /\ response.body = "decompressed bytes"

\* ---------------------------------------------------------------------
\* C16: a call that was blocked when the context of its request was
\* cancelled returns an error: resolveModuleLatest blocked in the request to
\* the module proxy, and ensureSDK blocked in the fetch of the archive or
\* behind the goroutine that holds the fetch mutex.
C16_CancelledCallReturnsError ==
    \A p \in Procs :
        /\ (cancelledAt[p] = "goproxy" /\ pcResolve[p] = "done")
               => retResolve[p] # Nil
        /\ (cancelledAt[p] \in {"fetch", "fetchMutex"} /\ pc[p] = "done")
               => ret[p] # Nil

\* ---------------------------------------------------------------------
\* C20: targets.increase re-sorts the list on each of the first 32
\* observations and afterwards on every 32nd only; right after an increase
\* that re-sorts, the list is in non-increasing order of use count; any
\* other increase leaves the list as it is; and the list is always a
\* permutation of the initial target list.
NonIncreasing(l, counts) ==
    \A i, j \in 1..Len(l) : i < j => UseOf(counts, l[i]) >= UseOf(counts, l[j])

IsPermutation(l, m) ==
    /\ Len(l) = Len(m)
    /\ \A i \in 1..Len(m) :
           Cardinality({j \in 1..Len(l) : l[j] = m[i]})
               = Cardinality({j \in 1..Len(m) : m[j] = m[i]})

ResortDue(n) == n <= SortEvery \/ n % SortEvery = 0

C20_ResortOnFirst32ThenEvery32nd ==
    /\ [][totalUse' # totalUse =>
              IF ResortDue(totalUse')
              THEN NonIncreasing(targetList', use') /\ lastSort' = totalUse'
              ELSE targetList' = targetList /\ lastSort' = lastSort]_vars
    /\ [](IsPermutation(targetList, InitialTargets))

\* The 64th observation has just re-sorted the list, which the observations
\* since the 32nd had left out of order: the target counted most is first
\* and was last in the initial list.
C20_Witness ==
    /\ totalUse = 2 * SortEvery
    /\ lastSort = totalUse
    /\ targetList = <<InitialTargets[3], InitialTargets[2], InitialTargets[1]>>
    /\ use[InitialTargets[3]] > use[InitialTargets[2]]
    /\ use[InitialTargets[2]] > use[InitialTargets[1]]
    /\ use[InitialTargets[3]] - use[InitialTargets[1]] > SortEvery

\* ---------------------------------------------------------------------
\* C23: acceptsGzip returns true or false, without a runtime panic, for
\* every Accept-Encoding value, a value of a single coding with a parameter
\* ("gzip;q=0", "gzip;q=1") included.
C23_AcceptsGzipNeverPanics ==
    pcHTTP = "serveGzipFile" =>
        acceptsGzip(request.acceptEncoding) \in {"yes", "no"}

\* ---------------------------------------------------------------------
\* C25: the set of targets that targets.valid accepts is constant: after
\* any calls of targets.increase(x), with strings x of any kind, valid(t)
\* is true exactly for the os/arch pairs of the initial target list.
C25_ValidSetIsConstant ==
    \A t \in InitialPairs \cup OtherStrings : valid(t) <=> t \in InitialPairs

\* ---------------------------------------------------------------------
\* C24: the two mutexes are taken in one order: a goroutine takes sdk.fetch
\* before sdk when it holds both, and never waits for sdk.fetch while it
\* holds sdk; so concurrent calls of ensureSDK, installedSDK and
\* ensureMostRecentSDK do not deadlock: when every remote operation
\* returns, every call returns.
WaitsForFetch(p) == pc[p] = "lockFetch"

WaitsForSdk(p) ==
    \/ pc[p] \in {"lockSdk", "lockSdkInstall"}
    \/ pcInst[p] \in {"lock", "relock"}

\* Some goroutine that is in a call can take a step.
SomeCallCanStep ==
    \E p \in Procs :
        InCall(p) /\ ENABLED (Manager_Step(p) \/ Manager_Fetched(p))

C24_OneLockOrderNoDeadlock ==
    /\ [](\A p \in Procs : WaitsForFetch(p) => sdkMu # p)
    /\ [](\A p \in Procs : (WaitsForSdk(p) /\ fetchMu = p)
                               => pc[p] = "lockSdkInstall")
    /\ []((\E p \in Procs : InCall(p)) => SomeCallCanStep)
    /\ \A p \in Procs : InCall(p) ~> ~InCall(p)

\* ---------------------------------------------------------------------
\* C21: the sdk mutex is never held while a remote operation is in progress
\* (goreleases.ListSupported in installedSDK, goreleases.ListAll and
\* goreleases.Fetch in ensureSDK), so installedSDK and ensureSDK(w) for an
\* installed w complete without waiting for a fetch another call is in: the
\* goroutine that holds the sdk mutex is in no remote operation and waits
\* for nothing, a goroutine that waits for the sdk mutex waits for one that
\* can take its step at once, only the part of ensureSDK for a toolchain
\* that is not installed holds sdk.fetch, and a call for a toolchain found
\* installed returns from the check.
HoldsSdkRunning(p) == pc[p] \in {"checkInstalled", "install"}

HoldsFetchInMiss(p) ==
    pc[p] \in {"listing", "fetching", "lockSdkInstall", "install"}

C21_SdkMutexFreeInRemote ==
    /\ [](\A p \in Procs : InRemote(p) => sdkMu # p)
    /\ [](\A p \in Procs : sdkMu = p => HoldsSdkRunning(p))
    /\ [](\A p \in Procs : fetchMu = p => HoldsFetchInMiss(p))
    /\ [](\A p \in Procs :
             WaitsForSdk(p) => (sdkMu = 0 \/ ENABLED Manager_Local(sdkMu)))
    /\ [][\A p \in Procs :
             (pc[p] = "checkInstalled" /\ goversion[p] \in installed)
                 => pc'[p] \in {"checkInstalled", "done"}]_vars

\* One goroutine is in the fetch of go2.0 while another, in ensureSDK for
\* the installed go1.13, holds the sdk mutex.
C21_Witness ==
    \E p, q \in Procs :
        /\ p # q
        /\ pc[q] = "fetching"
        /\ goversion[q] = Go2_0
        /\ fetchMu = q
        /\ sdkMu = p
        /\ pc[p] = "checkInstalled"
        /\ goversion[p] = Go1_13
        /\ Go1_13 \in installed

\* ---------------------------------------------------------------------
\* C22: a toolchain becomes visible only after its install completed: a
\* version is in sdk.installed only if initSDK found its directory at the
\* start or the rename of the extracted tree to sdk/<version> succeeded; an
\* entry of sdk.fetch.status without an error is of an installed version;
\* and a goroutine that has returned from ensureSDK has left no temporary
\* install directory behind, whichever way the call ended.
Renamed == sdkDir \ DiskNames

C22_VisibleOnlyAfterInstall ==
    /\ \A v \in installed : v \in initSDK(DiskNames) \/ v \in Renamed
    /\ \A v \in SDKVersions : status[v] = Nil => v \in installed
    /\ \A p \in Procs : pc[p] \in {"idle", "done"} => p \notin tmpDirs

\* A call has fetched and installed go2.0 and returned, and no temporary
\* directory is left.
C22_Witness ==
    \E p \in Procs :
        /\ pc[p] = "done"
        /\ goversion[p] = Go2_0
        /\ fetched[p]
        /\ ret[p] = Nil
        /\ Go2_0 \in installed
        /\ Go2_0 \in Renamed
        /\ status[Go2_0] = Nil
        /\ tmpDirs = {}

\* One goroutine holds sdk.fetch and waits for sdk to install go2.0, while
\* the other holds sdk in the check for go2.0 and will ask for sdk.fetch
\* next.
C24_Witness ==
    \E p, q \in Procs :
        /\ p # q
        /\ fetchMu = p
        /\ pc[p] = "lockSdkInstall"
        /\ sdkMu = q
        /\ pc[q] = "checkInstalled"
        /\ goversion[q] = Go2_0
        /\ Go2_0 \notin installed

=============================================================================
